---- MODULE Spec2Model ----
(***************************************************************************)
(* A model of the Spacebars template compiler (src/unnamed/part_000) and   *)
(* of the HTML serializer it relies on (src/packages/ui/render2.js).       *)
(*                                                                         *)
(* JavaScript strings are modelled as sequences of one-character strings,  *)
(* so that regular expressions, slices and escapes are computed character  *)
(* by character.  Positions are 0-based as in the source; CharAt and Slice *)
(* translate to the 1-based sequences of TLA+.                             *)
(***************************************************************************)
EXTENDS Integers, Sequences, FiniteSets, TLC

----------------------------------------------------------------------------
(* Strings *)

\* String.prototype.charAt: the empty string outside the string.
CharAt(s, p) == IF p >= 0 /\ p < Len(s) THEN s[p + 1] ELSE ""

\* String.prototype.slice(from, to) for 0 <= from.
Slice(s, from, to) ==
  LET t == IF to > Len(s) THEN Len(s) ELSE to
  IN  IF from >= t THEN << >> ELSE SubSeq(s, from + 1, t)

SliceFrom(s, from) == Slice(s, from, Len(s))

\* The JavaScript string a character sequence stands for.
RECURSIVE Str(_)
Str(s) == IF s = << >> THEN "" ELSE s[1] \o Str(Tail(s))

RECURSIVE Concat(_)
Concat(ss) == IF ss = << >> THEN << >> ELSE ss[1] \o Concat(Tail(ss))

\* Array.prototype.join over character sequences.
RECURSIVE Join(_, _)
Join(ss, sep) ==
  IF ss = << >> THEN << >>
  ELSE IF Len(ss) = 1 THEN ss[1]
  ELSE ss[1] \o sep \o Join(Tail(ss), sep)

\* Array.prototype.join over JavaScript strings.
RECURSIVE JoinStr(_, _)
JoinStr(ss, sep) ==
  IF ss = << >> THEN ""
  ELSE IF Len(ss) = 1 THEN ss[1]
  ELSE ss[1] \o sep \o JoinStr(Tail(ss), sep)

HasPrefix(s, p, pre) == Slice(s, p, p + Len(pre)) = pre

WhitespaceChars == {" ", "\t", "\n"}
Digits == {"0", "1", "2", "3", "4", "5", "6", "7", "8", "9"}
LowerLetters ==
  {"a", "b", "c", "d", "e", "f", "g", "h", "i", "j", "k", "l", "m",
   "n", "o", "p", "q", "r", "s", "t", "u", "v", "w", "x", "y", "z"}
UpperLetters ==
  {"A", "B", "C", "D", "E", "F", "G", "H", "I", "J", "K", "L", "M",
   "N", "O", "P", "Q", "R", "S", "T", "U", "V", "W", "X", "Y", "Z"}

RECURSIVE SkipWs(_, _)
\* The position after the run of whitespace at p: a leading \s*.
SkipWs(s, p) ==
  IF p < Len(s) /\ s[p + 1] \in WhitespaceChars THEN SkipWs(s, p + 1) ELSE p

\* The end (exclusive) of the maximal run of characters of set from p.
RECURSIVE RunEnd(_, _, _)
RunEnd(s, p, set) ==
  IF p < Len(s) /\ s[p + 1] \in set THEN RunEnd(s, p + 1, set) ELSE p

\* The position of the first character of set at or after p, or -1.
RECURSIVE IndexOfAny(_, _, _)
IndexOfAny(s, p, set) ==
  IF p >= Len(s) THEN -1
  ELSE IF s[p + 1] \in set THEN p
  ELSE IndexOfAny(s, p + 1, set)

\* The position of the first occurrence of pat at or after p, or -1.
RECURSIVE IndexOf(_, _, _)
IndexOf(s, p, pat) ==
  IF p + Len(pat) > Len(s) THEN -1
  ELSE IF HasPrefix(s, p, pat) THEN p
  ELSE IndexOf(s, p + 1, pat)

\* The position of the last "\n" before p, or -1 (String.lastIndexOf).
RECURSIVE LastNewline(_, _)
LastNewline(s, p) ==
  IF p <= 0 THEN -1
  ELSE IF s[p] = "\n" THEN p - 1
  ELSE LastNewline(s, p - 1)

RECURSIVE CountNewlines(_, _)
CountNewlines(s, p) ==
  IF p <= 0 THEN 0
  ELSE (IF s[p] = "\n" THEN 1 ELSE 0) + CountNewlines(s, p - 1)

\* String.prototype.toLowerCase on one character (the i flag of a regex).
LowerChar(c) ==
  CASE c = "A" -> "a" [] c = "B" -> "b" [] c = "C" -> "c" [] c = "D" -> "d"
    [] c = "E" -> "e" [] c = "F" -> "f" [] c = "G" -> "g" [] c = "H" -> "h"
    [] c = "I" -> "i" [] c = "J" -> "j" [] c = "K" -> "k" [] c = "L" -> "l"
    [] c = "M" -> "m" [] c = "N" -> "n" [] c = "O" -> "o" [] c = "P" -> "p"
    [] c = "Q" -> "q" [] c = "R" -> "r" [] c = "S" -> "s" [] c = "T" -> "t"
    [] c = "U" -> "u" [] c = "V" -> "v" [] c = "W" -> "w" [] c = "X" -> "x"
    [] c = "Y" -> "y" [] c = "Z" -> "z"
    [] OTHER -> c

RECURSIVE MapLower(_)
MapLower(s) == IF s = << >> THEN << >> ELSE <<LowerChar(s[1])>> \o MapLower(Tail(s))

----------------------------------------------------------------------------
(* prettyOffset *)

prettyOffset(code, pos) ==
  LET p == IF pos > Len(code) THEN Len(code) ELSE pos
      startOfLine == LastNewline(code, p) + 1
      indexInLine == pos - startOfLine
      lineNum == CountNewlines(code, p) + 1
  IN  "line " \o ToString(lineNum) \o ", offset " \o ToString(indexInLine)

----------------------------------------------------------------------------
(* The JavaScript tokenizer (JSLexer) used by parseStacheTag.  Its code is  *)
(* not part of the sources at hand; the token classes are the ones the     *)
(* scanner tests for.  Numbers are decimal integer literals.               *)

IdentStart == LowerLetters \cup UpperLetters \cup {"_", "$"}
IdentPart == IdentStart \cup Digits

JSKeywords ==
  { <<"t", "h", "i", "s">>, <<"i", "f">>, <<"e", "l", "s", "e">>,
    <<"w", "i", "t", "h">>, <<"i", "n">>, <<"d", "o">>, <<"f", "o", "r">>,
    <<"n", "e", "w">>, <<"v", "a", "r">> }

classifyWord(text) ==
  IF text \in { <<"t", "r", "u", "e">>, <<"f", "a", "l", "s", "e">> } THEN "BOOLEAN"
  ELSE IF text = <<"n", "u", "l", "l">> THEN "NULL"
  ELSE IF text \in JSKeywords THEN "KEYWORD"
  ELSE "IDENTIFIER"

\* lexer.pos = p; lexer.next(), with divisionPermitted = false.
lexerNext(s, p) ==
  LET c == CharAt(s, p)
  IN  IF p >= Len(s) THEN [type |-> "EOF", text |-> << >>]
      ELSE IF c \in IdentStart THEN
        LET text == Slice(s, p, RunEnd(s, p, IdentPart))
        IN  [type |-> classifyWord(text), text |-> text]
      ELSE IF c \in Digits THEN
        [type |-> "NUMBER", text |-> Slice(s, p, RunEnd(s, p, Digits))]
      ELSE IF c \in {"\"", "'"} THEN
        LET close == IndexOfAny(s, p + 1, {c, "\n"})
        IN  IF close = -1 \/ s[close + 1] = "\n"
            THEN [type |-> "ERROR", text |-> SliceFrom(s, p)]
            ELSE [type |-> "STRING", text |-> Slice(s, p, close + 1)]
      ELSE IF c \in WhitespaceChars THEN
        [type |-> "WHITESPACE", text |-> Slice(s, p, RunEnd(s, p, WhitespaceChars))]
      ELSE IF c = "/" THEN [type |-> "ERROR", text |-> SliceFrom(s, p)]
      ELSE [type |-> "PUNCTUATION", text |-> <<c>>]

\* Number(text) for a decimal integer literal.
RECURSIVE DigitsValue(_, _)
DigitValue(c) ==
  CASE c = "0" -> 0 [] c = "1" -> 1 [] c = "2" -> 2 [] c = "3" -> 3 [] c = "4" -> 4
    [] c = "5" -> 5 [] c = "6" -> 6 [] c = "7" -> 7 [] c = "8" -> 8 [] c = "9" -> 9
DigitsValue(text, acc) ==
  IF text = << >> THEN acc
  ELSE DigitsValue(Tail(text), acc * 10 + DigitValue(text[1]))

----------------------------------------------------------------------------
(* Spacebars.parseStacheTag *)

\* A thrown Error: parseStacheTag's error(msg) at scanner position pos.
Err(s, pos, msg) ==
  [ok |-> FALSE, error |-> msg \o " at " \o prettyOffset(s, pos)]

\* expected(what).
Expected(s, pos, what) ==
  Err(s, pos, "Expected " \o what \o ", found \"" \o Str(Slice(s, pos, pos + 5)) \o "\"")

\* The lookahead makeStacheTagStartRegex appends: (?![{>!#/]).
SigilChars == {"{", ">", "!", "#", "/"}
\* A slip: the lookahead is left out.
NoSigilAheadMutant(s, p) == TRUE

NoSigilAhead(s, p) == CharAt(s, p) \notin SigilChars

startsTypes == <<"ELSE", "DOUBLE", "TRIPLE", "COMMENT", "INCLUSION", "BLOCKOPEN", "BLOCKCLOSE">>

\* /^\{\{\s*else(?=[\s}])/i with the appended lookahead: the length of the
\* match at p, or -1.
startsELSE(s, p) ==
  LET q == SkipWs(s, p + 2)
  IN  IF /\ HasPrefix(s, p, <<"{", "{">>)
         /\ MapLower(Slice(s, q, q + 4)) = <<"e", "l", "s", "e">>
         /\ CharAt(s, q + 4) \in WhitespaceChars \cup {"}"}
         /\ NoSigilAhead(s, q + 4)
      THEN q + 4 - p ELSE -1

\* /^<open>\s*(?!\s)/ with the appended lookahead, for DOUBLE and TRIPLE.
startsPlain(s, p, open) ==
  LET q == SkipWs(s, p + Len(open))
  IN  IF HasPrefix(s, p, open) /\ NoSigilAhead(s, q) THEN q - p ELSE -1

\* /^\{\{\s*!/ with the appended lookahead.
startsCOMMENT(s, p) ==
  LET q == SkipWs(s, p + 2)
  IN  IF HasPrefix(s, p, <<"{", "{">>) /\ CharAt(s, q) = "!" /\ NoSigilAhead(s, q + 1)
      THEN q + 1 - p ELSE -1

\* /^\{\{\s*<sigil>\s*(?!\s)/ with the appended lookahead, for INCLUSION,
\* BLOCKOPEN and BLOCKCLOSE.
startsSigil(s, p, sigil) ==
  LET q == SkipWs(s, p + 2)
      r == SkipWs(s, q + 1)
  IN  IF HasPrefix(s, p, <<"{", "{">>) /\ CharAt(s, q) = sigil /\ NoSigilAhead(s, r)
      THEN r - p ELSE -1

\* starts[type].exec(str): the length of the match, or -1 for null.
starts(type, s, p) ==
  CASE type = "ELSE" -> startsELSE(s, p)
    [] type = "DOUBLE" -> startsPlain(s, p, <<"{", "{">>)
    [] type = "TRIPLE" -> startsPlain(s, p, <<"{", "{", "{">>)
    [] type = "COMMENT" -> startsCOMMENT(s, p)
    [] type = "INCLUSION" -> startsSigil(s, p, ">")
    [] type = "BLOCKOPEN" -> startsSigil(s, p, "#")
    [] type = "BLOCKCLOSE" -> startsSigil(s, p, "/")

\* The if/else-if chain that tries the start patterns in order: the first
\* type of order from index i on that matches, or "" when none does.
RECURSIVE firstStart(_, _, _, _)
firstStart(order, i, s, p) ==
  IF i > Len(order) THEN ""
  ELSE IF starts(order[i], s, p) >= 0 THEN order[i]
  ELSE firstStart(order, i + 1, s, p)

\* scanIdentifier, given the token scanToken() returned.
scanIdentifierOf(s, pos, isFirstInPath, tok) ==
  IF ~ (\/ tok.type = "IDENTIFIER"
        \/ tok.type = "KEYWORD"
        \/ (~ isFirstInPath /\ tok.type \in {"BOOLEAN", "NULL"}))
  THEN Expected(s, pos, "IDENTIFIER")
  ELSE [ok |-> TRUE, text |-> tok.text, pos |-> pos + Len(tok.text)]

scanIdentifier(s, pos, isFirstInPath) ==
  scanIdentifierOf(s, pos, isFirstInPath, lexerNext(s, pos))

\* String.prototype.split("/").
RECURSIVE SplitSlash(_, _)
SplitSlash(s, cur) ==
  IF s = << >> THEN <<cur>>
  ELSE IF s[1] = "/" THEN <<cur>> \o SplitSlash(Tail(s), << >>)
  ELSE SplitSlash(Tail(s), Append(cur, s[1]))

\* The _.each over the dot clauses: what the first expected() thrown names
\* (the grave accents of the source's messages are left out), or "" when
\* every clause is accepted.
RECURSIVE dotClauseError(_, _)
dotClauseError(clauses, index) ==
  IF index > Len(clauses) THEN ""
  ELSE IF index = 1 /\ clauses[index] \notin { <<".">>, <<".", ".">> }
    THEN "., .., ./ or ../"
  ELSE IF index > 1 /\ clauses[index] # <<".", ".">>
    THEN ".. or ../"
  ELSE dotClauseError(clauses, index + 1)

\* '.' followed by one '.' for each .. clause.
RECURSIVE ancestorDots(_)
ancestorDots(clauses) ==
  IF clauses = << >> THEN << >>
  ELSE (IF clauses[1] = <<".", ".">> THEN <<".">> ELSE << >>) \o ancestorDots(Tail(clauses))

\* A slip: the string begins with the dots of one ancestor step.
ancestorStrMutant(clauses) == <<".", ".">> \o ancestorDots(clauses)

ancestorStr(clauses) == <<".">> \o ancestorDots(clauses)

\* The while (true) loop of scanPath, entered with segments.
RECURSIVE scanSegments(_, _, _)

\* var sep = run(/^[\.\/]/); if (! sep) break;
afterSegment(s, p, segments) ==
  IF CharAt(s, p) \in {".", "/"}
  THEN scanSegments(s, p + 1, segments)
  ELSE [ok |-> TRUE, segments |-> segments, pos |-> p]

\* A bracketed segment whose "[" is at pos; close is the position of the
\* first "]" after it, or -1.
bracketSegment(s, pos, segments, close) ==
  IF close = -1 THEN Err(s, pos + 1, "Unterminated path segment")
  ELSE IF Slice(s, pos + 1, close) = << >> /\ segments = << >>
    THEN Err(s, close + 1, "Path can't start with empty string")
  ELSE afterSegment(s, close + 1, Append(segments, Slice(s, pos + 1, close)))

\* A slip: this becomes "." wherever it stands in the path.
identifierSegmentMutant(s, segments, id) ==
  IF ~ id.ok THEN id
  ELSE IF id.text = <<"t", "h", "i", "s">>
    THEN afterSegment(s, id.pos, Append(segments, <<".">>))
  ELSE afterSegment(s, id.pos, Append(segments, id.text))

\* An identifier segment, given what scanIdentifier returned.
identifierSegment(s, segments, id) ==
  IF ~ id.ok THEN id
  ELSE IF id.text = <<"t", "h", "i", "s">> /\ segments = << >>
    THEN afterSegment(s, id.pos, Append(segments, <<".">>))
  ELSE afterSegment(s, id.pos, Append(segments, id.text))

scanSegments(s, pos, segments) ==
  IF CharAt(s, pos) = "["
  THEN bracketSegment(s, pos, segments, IndexOfAny(s, pos + 1, {"]"}))
  ELSE identifierSegment(s, segments, scanIdentifier(s, pos, segments = << >>))

\* The initial run of dots and slashes, already consumed up to dotsEnd and
\* split into its clauses.
scanDotClauses(s, dotsEnd, endsWithSlash, clauses) ==
  IF dotClauseError(clauses, 1) # ""
  THEN Expected(s, dotsEnd, dotClauseError(clauses, 1))
  ELSE IF ~ endsWithSlash
    THEN [ok |-> TRUE, segments |-> <<ancestorStr(clauses)>>, pos |-> dotsEnd]
  ELSE scanSegments(s, dotsEnd, <<ancestorStr(clauses)>>)

\* scanPath, given dots = run(/^[\.\/]+/) (empty for null).
scanPathDots(s, pos, dots) ==
  IF dots = << >> THEN scanSegments(s, pos, << >>)
  ELSE IF dots[Len(dots)] = "/"
    THEN scanDotClauses(s, pos + Len(dots), TRUE,
                        SplitSlash(Slice(dots, 0, Len(dots) - 1), << >>))
  ELSE scanDotClauses(s, pos + Len(dots), FALSE, SplitSlash(dots, << >>))

scanPath(s, pos) ==
  scanPathDots(s, pos, Slice(s, pos, RunEnd(s, pos, {".", "/"})))

\* JSON.parse of a string literal text (with its double quotes): the source
\* texts of the model hold no backslash, so the value is the inner text, and
\* a double quote or a control character inside it is a SyntaxError.
JSONParseString(text) ==
  LET inner == Slice(text, 1, Len(text) - 1)
  IN  IF \E i \in 1..Len(inner) : inner[i] \in {"\"", "\\", "\t", "\n"}
      THEN [ok |-> FALSE, error |-> "SyntaxError: Unexpected token in JSON"]
      ELSE [ok |-> TRUE, value |-> inner]

\* text.replace(/[\r\n\u000A\u000D  ]/g, 'n')
RECURSIVE replaceLineContinuations(_)
replaceLineContinuations(text) ==
  IF text = << >> THEN << >>
  ELSE <<IF text[1] = "\n" THEN "n" ELSE text[1]>> \o replaceLineContinuations(Tail(text))

\* The decoding of a STRING token's text in scanArg.
decodeStringToken(text) ==
  JSONParseString(replaceLineContinuations(
    IF text[1] = "'"
    THEN <<"\"">> \o Slice(text, 1, Len(text) - 1) \o <<"\"">>
    ELSE text))

\* The value JavaScript null.
JSNull == "null"

ArgExpected == "identifier, number, string, boolean, or null"

\* scanArg: [ok, arg, pos], where arg is <<type, value>> or, for a keyword
\* argument, <<type, value, key>>.
RECURSIVE scanArg(_, _, _)

\* return ['PATH', scanPath()], given what scanPath returned.
pathArg(r) ==
  IF r.ok THEN [ok |-> TRUE, arg |-> <<"PATH", r.segments>>, pos |-> r.pos] ELSE r

\* The unary minus: numberTok is the token after the "-", which ends at after.
minusArg(s, after, numberTok) ==
  IF numberTok.type # "NUMBER" THEN Expected(s, after, ArgExpected)
  ELSE [ok |-> TRUE,
        arg |-> <<"NUMBER", 0 - DigitsValue(numberTok.text, 0)>>,
        pos |-> after + Len(numberTok.text)]

\* return ['STRING', JSON.parse(text)], given what the decoding gave.
stringArg(v, after) ==
  IF v.ok THEN [ok |-> TRUE, arg |-> <<"STRING", v.value>>, pos |-> after] ELSE v

\* arg.push(text): the key becomes the third element.
keywordArg(value, text) ==
  IF value.ok
  THEN [ok |-> TRUE, arg |-> Append(value.arg, text), pos |-> value.pos]
  ELSE value

\* scanArg, given the token scanToken() returned.
scanArgOf(s, pos, notKeyword, tok) ==
  IF CharAt(s, pos) \in {".", "["} /\ tok.type # "NUMBER"
  THEN pathArg(scanPath(s, pos))
  ELSE IF tok.type = "PUNCTUATION" /\ tok.text = <<"-">>
    THEN minusArg(s, pos + 1, lexerNext(s, pos + 1))
  ELSE IF tok.type = "BOOLEAN"
    THEN [ok |-> TRUE, arg |-> <<"BOOLEAN", tok.text = <<"t", "r", "u", "e">> >>,
          pos |-> pos + Len(tok.text)]
  ELSE IF tok.type = "NULL"
    THEN [ok |-> TRUE, arg |-> <<"NULL", JSNull>>, pos |-> pos + Len(tok.text)]
  ELSE IF tok.type = "NUMBER"
    THEN [ok |-> TRUE, arg |-> <<"NUMBER", DigitsValue(tok.text, 0)>>,
          pos |-> pos + Len(tok.text)]
  ELSE IF tok.type = "STRING"
    THEN stringArg(decodeStringToken(tok.text), pos + Len(tok.text))
  ELSE IF tok.type \in {"IDENTIFIER", "KEYWORD"}
    THEN IF ~ notKeyword /\ CharAt(s, SkipWs(s, pos + Len(tok.text))) = "="
         THEN keywordArg(
                scanArg(s, SkipWs(s, SkipWs(s, pos + Len(tok.text)) + 1), TRUE),
                tok.text)
         ELSE pathArg(scanPath(s, pos))
  ELSE Expected(s, pos, ArgExpected)

scanArg(s, pos, notKeyword) == scanArgOf(s, pos, notKeyword, lexerNext(s, pos))

\* ends[type]: /^\s*\}\}/ for DOUBLE, /^\s*\}\}\}/ for TRIPLE.
ends(type) == IF type = "TRIPLE" THEN <<"}", "}", "}">> ELSE <<"}", "}">>

\* run(ends[type]): the position after the match, or -1 for null.
runEnds(type, s, pos) ==
  LET q == SkipWs(s, pos)
  IN  IF HasPrefix(s, q, ends(type)) THEN q + Len(ends(type)) ELSE -1

\* The while (true) loop that reads the arguments of a DOUBLE, TRIPLE,
\* INCLUSION or BLOCKOPEN tag up to its closing braces.
RECURSIVE scanArgs(_, _, _, _)

\* tag.args.push(scanArg()); if (run(/^(?=[\s}])/) !== '') expected('space');
afterArg(s, type, args, a) ==
  IF ~ a.ok THEN a
  ELSE IF CharAt(s, a.pos) \in WhitespaceChars \cup {"}"}
    THEN scanArgs(s, a.pos, type, Append(args, a.arg))
  ELSE Expected(s, a.pos, "space")

\* One round of the loop after run(/^\s*/) has moved to p; close is what
\* run(ends[...]) gives there.
scanArgsAt(s, p, type, args, close) ==
  IF close >= 0 THEN [ok |-> TRUE, args |-> args, pos |-> close]
  ELSE IF CharAt(s, p) = "}"
    THEN Expected(s, p, Str(ends(IF type = "TRIPLE" THEN "TRIPLE" ELSE "DOUBLE")))
  ELSE afterArg(s, type, args, scanArg(s, p, FALSE))

scanArgs(s, pos, type, args) ==
  scanArgsAt(s, SkipWs(s, pos), type, args,
             runEnds(IF type = "TRIPLE" THEN "TRIPLE" ELSE "DOUBLE", s, SkipWs(s, pos)))

\* The number of positional arguments: the entries of length 2.
numPosArgs(args) == Cardinality({i \in 1..Len(args) : Len(args[i]) = 2})

\* A slip in the threshold: two positional arguments pass.
checkTagMutant(tag) ==
  ~ (tag.type = "INCLUSION" /\ numPosArgs(tag.args) > 2)

\* checkTag(tag) returns (TRUE) or throws (FALSE).
checkTag(tag) ==
  ~ (tag.type = "INCLUSION" /\ numPosArgs(tag.args) > 1)

\* A slip: charLength is the end position, not the distance from startPos.
withCharRangeMutant(tag, startPos, pos) ==
  [k \in DOMAIN tag \cup {"charPos", "charLength"} |->
     IF k = "charPos" THEN startPos
     ELSE IF k = "charLength" THEN pos
     ELSE tag[k]]

\* tag.charPos and tag.charLength of a tag that began at startPos and whose
\* scan ended at pos.
withCharRange(tag, startPos, pos) ==
  [k \in DOMAIN tag \cup {"charPos", "charLength"} |->
     IF k = "charPos" THEN startPos
     ELSE IF k = "charLength" THEN pos - startPos
     ELSE tag[k]]

\* The COMMENT body: end is the position of the first "}}" from p, or -1.
commentBody(s, p, end) ==
  IF end = -1 THEN Err(s, p, "Unclosed comment")
  ELSE [ok |-> TRUE, tag |-> [type |-> "COMMENT", value |-> Slice(s, p, end)],
        pos |-> end + 2]

\* The BLOCKCLOSE body, given what scanPath returned.
blockCloseBody(s, path) ==
  IF ~ path.ok THEN path
  ELSE IF runEnds("DOUBLE", s, path.pos) = -1 THEN Expected(s, path.pos, "}}")
  ELSE [ok |-> TRUE, tag |-> [type |-> "BLOCKCLOSE", path |-> path.segments],
        pos |-> runEnds("DOUBLE", s, path.pos)]

\* tag.args of a DOUBLE, TRIPLE, INCLUSION or BLOCKOPEN tag, given its
\* path and what the argument loop returned.
argsBody(type, segments, args) ==
  IF ~ args.ok THEN args
  ELSE [ok |-> TRUE,
        tag |-> [type |-> type, path |-> segments, args |-> args.args],
        pos |-> args.pos]

\* The body of a DOUBLE, TRIPLE, INCLUSION or BLOCKOPEN tag, given what
\* scanPath returned.
pathArgsBody(type, s, path) ==
  IF ~ path.ok THEN path
  ELSE argsBody(type, path.segments, scanArgs(s, path.pos, type, << >>))

\* The body of parseStacheTag after the start pattern of type has matched
\* up to p: [ok, tag, pos], before checkTag.
scanTagBody(type, s, p) ==
  IF type = "COMMENT" THEN commentBody(s, p, IndexOf(s, p, <<"}", "}">>))
  ELSE IF type = "BLOCKCLOSE" THEN blockCloseBody(s, scanPath(s, p))
  ELSE IF type = "ELSE" THEN
    IF runEnds("DOUBLE", s, p) = -1 THEN Expected(s, p, "}}")
    ELSE [ok |-> TRUE, tag |-> [type |-> type], pos |-> runEnds("DOUBLE", s, p)]
  ELSE pathArgsBody(type, s, scanPath(s, p))

\* checkTag(tag), then tag.charPos and tag.charLength.
finishTag(inputString, startPos, body) ==
  IF ~ body.ok THEN body
  ELSE IF ~ checkTag(body.tag)
    THEN Err(inputString, body.pos, "Only one positional argument is allowed here")
  ELSE [ok |-> TRUE, tag |-> withCharRange(body.tag, startPos, body.pos)]

\* parseStacheTag, given the type the chain of start patterns chose ("" for
\* none).
parseStacheTagOf(inputString, pos, type) ==
  IF type = ""
  THEN Err(inputString, pos,
           "Unknown stache tag starting with \""
             \o Str(Slice(inputString, pos, pos + 5)) \o "\"")
  ELSE finishTag(inputString, pos,
                 scanTagBody(type, inputString, pos + starts(type, inputString, pos)))

\* Spacebars.parseStacheTag(inputString, pos): [ok |-> TRUE, tag |-> the tag
\* returned] or [ok |-> FALSE, error |-> the message of the Error thrown].
parseStacheTag(inputString, pos) ==
  parseStacheTagOf(inputString, pos, firstStart(startsTypes, 1, inputString, pos))

----------------------------------------------------------------------------
(* Tree nodes.  Every node is a record with a kind: JavaScript null, a     *)
(* string, HTML.Raw, HTML.CharRef, HTML.Comment, HTML.Special,             *)
(* HTML.EmitCode, a Tag, an array, or a function.                          *)

NullNode == [kind |-> "null"]
StringNode(v) == [kind |-> "string", value |-> v]
Raw(html) == [kind |-> "Raw", value |-> html]
CharRef(html, str) == [kind |-> "CharRef", html |-> html, str |-> str]
Comment(v) == [kind |-> "Comment", value |-> v]
Special(tag) == [kind |-> "Special", value |-> tag]
EmitCode(code) == [kind |-> "EmitCode", value |-> code]
ArrayNode(items) == [kind |-> "array", items |-> items]
FunctionNode(returns) == [kind |-> "function", returns |-> returns]

\* delete obj[k] for each k of keys.
Delete(obj, keys) == [k \in DOMAIN obj \ keys |-> obj[k]]

\* obj[key] = value on a record.
With(obj, key, value) ==
  [k \in DOMAIN obj \cup {key} |-> IF k = key THEN value ELSE obj[k]]

----------------------------------------------------------------------------
(* Spacebars.parse: HTML.parseFragment with getSpecialTag.  The fragment   *)
(* parser is not part of the sources at hand; it is modelled for inputs of *)
(* character data and stache tags: it asks shouldStop, then getSpecialTag, *)
(* then takes a character, joins adjacent characters into one string, and  *)
(* returns null, the only item, or the array of items.                     *)

\* What a fragment returns for the items it collected.
fragmentResult(items) ==
  IF Len(items) = 0 THEN NullNode
  ELSE IF Len(items) = 1 THEN items[1]
  ELSE ArrayNode(items)

\* Character data joins a string that ends the items.
pushOrAppendString(items, c) ==
  IF Len(items) > 0 /\ items[Len(items)].kind = "string"
  THEN [items EXCEPT ![Len(items)] = StringNode(items[Len(items)].value \o <<c>>)]
  ELSE Append(items, StringNode(<<c>>))

\* Unary plus on a string, then the conversion to a string that the
\* concatenation makes: a decimal integer (surrounded by whitespace or not,
\* signed or not) gives its value, the empty string 0, anything else NaN.
\* digits are the characters from the position after the sign up to to.
unaryPlusOf(text, negative, digits, to) ==
  IF SkipWs(text, 0) = Len(text) THEN "0"
  ELSE IF digits = << >> \/ SkipWs(text, to) # Len(text) THEN "NaN"
  ELSE IF negative /\ DigitsValue(digits, 0) # 0
    THEN "-" \o ToString(DigitsValue(digits, 0))
  ELSE ToString(DigitsValue(digits, 0))

unaryPlusFrom(text, from, negative) ==
  unaryPlusOf(text, negative, Slice(text, from, RunEnd(text, from, Digits)),
              RunEnd(text, from, Digits))

unaryPlus(text) ==
  IF CharAt(text, SkipWs(text, 0)) \in {"+", "-"}
  THEN unaryPlusFrom(text, SkipWs(text, 0) + 1, CharAt(text, SkipWs(text, 0)) = "-")
  ELSE unaryPlusFrom(text, SkipWs(text, 0), FALSE)

\* What follows ', found ' in the message of a block name mismatch:
\* ', found ' + + blockName2.
foundName(blockName2) == unaryPlus(blockName2)

\* stache.path.join(',')
blockNameOf(path) == Join(path, <<",">>)

\* /^\{\{\s*(\/|else\b)/.test(rest)
closeOrElseAhead(s, p) ==
  /\ HasPrefix(s, p, <<"{", "{">>)
  /\ \/ CharAt(s, SkipWs(s, p + 2)) = "/"
     \/ /\ HasPrefix(s, SkipWs(s, p + 2), <<"e", "l", "s", "e">>)
        /\ CharAt(s, SkipWs(s, p + 2) + 4) \notin IdentPart \ {"$"}

\* The end of isAtBlockCloseOrElse: the type of the tag at the position.
stopTypeOf(r) ==
  IF ~ r.ok THEN r
  ELSE [ok |-> TRUE, value |-> r.tag.type \in {"BLOCKCLOSE", "ELSE"}]

\* isAtBlockCloseOrElse(scanner): [ok |-> TRUE, value |-> its result], or the
\* error parseStacheTag threw.
isAtBlockCloseOrElse(scanner) ==
  IF closeOrElseAhead(scanner.input, scanner.pos)
  THEN stopTypeOf(parseStacheTag(scanner.input, scanner.pos))
  ELSE [ok |-> TRUE, value |-> FALSE]

\* The tag as getSpecialTag embeds it: without charPos and charLength, and
\* without an empty args.
cleanStache(tag) ==
  Delete(tag, {"charPos", "charLength"}
                \cup (IF "args" \in DOMAIN tag /\ tag.args = << >> THEN {"args"} ELSE {}))

\* The outcome of a step of the parse: the values of the next state.
Fatal(scanner, msg) ==
  [pc |-> "fatal", error |-> msg, pos |-> scanner.pos, frames |-> << >>]

Goes(pos, frames) ==
  [pc |-> "running", error |-> "", pos |-> pos, frames |-> frames]

\* The items of the innermost fragment.
topItems(frames) == frames[Len(frames)].items

withTopItems(frames, items) ==
  [frames EXCEPT ![Len(frames)] = [@ EXCEPT !.items = items]]

\* A slip: an ELSE tag is not refused, it is returned as any other tag.
getSpecialTagOfMutant(scanner, frames, r) ==
  IF ~ r.ok THEN Fatal(scanner, r.error)
  ELSE IF r.tag.type = "BLOCKCLOSE"
    THEN Fatal(scanner, "Found unexpected closing stache tag")
  ELSE IF r.tag.type = "COMMENT"
    THEN Goes(scanner.pos + r.tag.charLength, frames)
  ELSE IF r.tag.type = "BLOCKOPEN"
    THEN Goes(scanner.pos + r.tag.charLength,
              Append(frames, [part |-> "content", items |-> << >>,
                              stache |-> cleanStache(r.tag)]))
  ELSE Goes(scanner.pos + r.tag.charLength,
            withTopItems(frames, Append(topItems(frames), Special(cleanStache(r.tag)))))

\* A slip: scanner.pos += stache.charLength is left out, the tag is not
\* consumed.
getSpecialTagOfStalls(scanner, frames, r) ==
  IF ~ r.ok THEN Fatal(scanner, r.error)
  ELSE IF r.tag.type = "ELSE" THEN Fatal(scanner, "Found unexpected {{else}}}")
  ELSE IF r.tag.type = "BLOCKCLOSE"
    THEN Fatal(scanner, "Found unexpected closing stache tag")
  ELSE IF r.tag.type = "COMMENT"
    THEN Goes(scanner.pos, frames)
  ELSE IF r.tag.type = "BLOCKOPEN"
    THEN Goes(scanner.pos,
              Append(frames, [part |-> "content", items |-> << >>,
                              stache |-> cleanStache(r.tag)]))
  ELSE Goes(scanner.pos,
            withTopItems(frames, Append(topItems(frames), Special(cleanStache(r.tag)))))

\* getSpecialTag at a "{{", up to the point where a block begins to read
\* its content: r is what parseStacheTag returned.
getSpecialTagOf(scanner, frames, r) ==
  IF ~ r.ok THEN Fatal(scanner, r.error)
  ELSE IF r.tag.type = "ELSE" THEN Fatal(scanner, "Found unexpected {{else}}}")
  ELSE IF r.tag.type = "BLOCKCLOSE"
    THEN Fatal(scanner, "Found unexpected closing stache tag")
  ELSE IF r.tag.type = "COMMENT"
    THEN Goes(scanner.pos + r.tag.charLength, frames)
  ELSE IF r.tag.type = "BLOCKOPEN"
    THEN Goes(scanner.pos + r.tag.charLength,
              Append(frames, [part |-> "content", items |-> << >>,
                              stache |-> cleanStache(r.tag)]))
  ELSE Goes(scanner.pos + r.tag.charLength,
            withTopItems(frames, Append(topItems(frames), Special(cleanStache(r.tag)))))

\* A slip: the names are never compared.
blockNamesDifferMutant(blockName, blockName2) == FALSE

\* blockName !== blockName2
blockNamesDiffer(blockName, blockName2) == blockName # blockName2

\* The block tag of the innermost frame is complete: it is returned to the
\* fragment that holds it.
returnBlock(pos, frames, stache) ==
  Goes(pos,
       withTopItems(SubSeq(frames, 1, Len(frames) - 1),
                    Append(topItems(SubSeq(frames, 1, Len(frames) - 1)), Special(stache))))

\* if (stache2.type === 'BLOCKCLOSE') ... else ...: stache is the block tag
\* with its content, stache2 the tag parsed after it.
closeBlockOf(scanner, frames, stache, stache2) ==
  IF ~ stache2.ok THEN Fatal(scanner, stache2.error)
  ELSE IF stache2.tag.type = "BLOCKCLOSE"
    THEN IF blockNamesDiffer(blockNameOf(stache.path), blockNameOf(stache2.tag.path))
         THEN Fatal(scanner,
                    "Expected tag to close " \o Str(blockNameOf(stache.path))
                      \o ", found " \o foundName(blockNameOf(stache2.tag.path)))
         ELSE returnBlock(scanner.pos + stache2.tag.charLength, frames, stache)
  ELSE Fatal(scanner,
             "Expected tag to close " \o Str(blockNameOf(stache.path))
               \o ", found " \o stache2.tag.type)

\* After stache.content: an ELSE begins the else content, anything else must
\* close the block.
afterContentOf(scanner, frames, stache, stache2) ==
  IF stache2.ok /\ stache2.tag.type = "ELSE"
  THEN Goes(scanner.pos + stache2.tag.charLength,
            [frames EXCEPT ![Len(frames)] =
               [part |-> "elseContent", items |-> << >>, stache |-> stache]])
  ELSE closeBlockOf(scanner, frames, stache, stache2)

\* A slip: an ELSE is looked for after the else content too.
endOfFragmentMutant(scanner, frames) ==
  IF ~ HasPrefix(scanner.input, scanner.pos, <<"{", "{">>)
  THEN Fatal(scanner, "Expected {{else}} or block close for "
                        \o Str(blockNameOf(frames[Len(frames)].stache.path)))
  ELSE afterContentOf(scanner, frames,
                      With(frames[Len(frames)].stache, frames[Len(frames)].part,
                           fragmentResult(topItems(frames))),
                      parseStacheTag(scanner.input, scanner.pos))

\* getSpecialTag from the return of the fragment that read the content or
\* the else content of the innermost block.
endOfFragment(scanner, frames) ==
  IF ~ HasPrefix(scanner.input, scanner.pos, <<"{", "{">>)
  THEN Fatal(scanner,
             (IF frames[Len(frames)].part = "content"
              THEN "Expected {{else}} or block close for "
              ELSE "Expected block close for ")
               \o Str(blockNameOf(frames[Len(frames)].stache.path)))
  ELSE IF frames[Len(frames)].part = "content"
    THEN afterContentOf(scanner, frames,
                        With(frames[Len(frames)].stache, "content",
                             fragmentResult(topItems(frames))),
                        parseStacheTag(scanner.input, scanner.pos))
  ELSE closeBlockOf(scanner, frames,
                    With(frames[Len(frames)].stache, "elseContent",
                         fragmentResult(topItems(frames))),
                    parseStacheTag(scanner.input, scanner.pos))

----------------------------------------------------------------------------
(* toHTML.  A Tag is a record of tagName, attrs and children; attrs is     *)
(* null or an object, the sequence of its <<name, value>> entries in       *)
(* insertion order.                                                        *)

Tag(tagName, attrs, children) ==
  [kind |-> "Tag", tagName |-> tagName, attrs |-> attrs, children |-> children]

Attrs(entries) == [kind |-> "object", entries |-> entries]

\* s.replace(/c/g, r) for a character c.
RECURSIVE ReplaceChar(_, _, _)
ReplaceChar(s, c, r) ==
  IF s = << >> THEN << >>
  ELSE (IF s[1] = c THEN r ELSE <<s[1]>>) \o ReplaceChar(Tail(s), c, r)

\* content.replace(/--+/g, '')
RECURSIVE removeDashRuns(_)
removeDashRuns(s) ==
  IF s = << >> THEN << >>
  ELSE IF RunEnd(s, 0, {"-"}) >= 2 THEN removeDashRuns(SliceFrom(s, RunEnd(s, 0, {"-"})))
  ELSE <<s[1]>> \o removeDashRuns(Tail(s))

\* s.replace(/-$/, '')
removeLastDash(s) ==
  IF s # << >> /\ s[Len(s)] = "-" THEN SubSeq(s, 1, Len(s) - 1) ELSE s

sanitizeComment(content) == removeLastDash(removeDashRuns(content))

properCaseTagName(name) == MapLower(name)

attributeValuePartToQuotedStringPart(v) ==
  IF v.kind = "string"
  THEN ReplaceChar(ReplaceChar(v.value, "\"", <<"&", "q", "u", "o", "t", ";">>),
                   "&", <<"&", "a", "m", "p", ";">>)
  ELSE v.html

RECURSIVE quotedStringParts(_)
quotedStringParts(vs) ==
  IF vs = << >> THEN << >>
  ELSE attributeValuePartToQuotedStringPart(vs[1]) \o quotedStringParts(Tail(vs))

attributeValueToQuotedString(v) ==
  <<"\"">>
    \o (IF v.kind = "array" THEN quotedStringParts(v.items)
        ELSE attributeValuePartToQuotedStringPart(v))
    \o <<"\"">>

\* The attributes of a tag in toHTML: ' ' + k + '=' + the quoted value, for
\* each attribute.
RECURSIVE attrsToHTML(_)
attrsToHTML(entries) ==
  IF entries = << >> THEN << >>
  ELSE <<" ">> \o entries[1][1] \o <<"=">> \o attributeValueToQuotedString(entries[1][2])
         \o attrsToHTML(Tail(entries))

\* The HTML of a Raw node is its value as it stands, with no escaping.
rawToHTML(node) == node.value

RECURSIVE toHTML(_)
RECURSIVE toHTMLEach(_)
toHTMLEach(items) ==
  IF items = << >> THEN << >> ELSE toHTML(items[1]) \o toHTMLEach(Tail(items))

toHTML(node) ==
  IF node.kind = "Tag"
  THEN <<"<">> \o properCaseTagName(node.tagName)
         \o (IF node.attrs.kind = "object" THEN attrsToHTML(node.attrs.entries) ELSE << >>)
         \o <<">">> \o toHTMLEach(node.children)
         \o <<"<", "/">> \o properCaseTagName(node.tagName) \o <<">">>
  ELSE IF node.kind = "CharRef" THEN node.html
  ELSE IF node.kind = "Comment"
    THEN <<"<", "!", "-", "-">> \o sanitizeComment(node.value) \o <<"-", "-", ">">>
  ELSE IF node.kind = "array" THEN toHTMLEach(node.items)
  ELSE IF node.kind = "string"
    THEN ReplaceChar(ReplaceChar(node.value, "&", <<"&", "a", "m", "p", ";">>),
                     "<", <<"&", "l", "t", ";">>)
  ELSE IF node.kind = "Raw" THEN rawToHTML(node)
  ELSE << >>

----------------------------------------------------------------------------
(* optimize.  What may be null or an array (result, newChildren) is        *)
(* NullNode or an ArrayNode.                                               *)

\* A slip: the HTML is never joined to a Raw that ends the array.
pushRawHTMLMutant(array, html) == Append(array, [kind |-> "Raw", value |-> html])

pushRawHTML(array, html) ==
  IF Len(array) > 0 /\ array[Len(array)].kind = "Raw"
  THEN [array EXCEPT ![Len(array)] = Raw(array[Len(array)].value \o html)]
  ELSE Append(array, Raw(html))

\* A slip: an ampersand passes for pure character data.
isPureCharsMutant(html) == IndexOf(html, 0, <<"<">>) < 0

isPureChars(html) ==
  IndexOf(html, 0, <<"&">>) < 0 /\ IndexOf(html, 0, <<"<">>) < 0

\* for (var j = 0; j < i; j++) pushRawHTML(result, HTML.toHTML(array[j]))
\* on an empty result: n is the number of parts to stringify.
RECURSIVE stringifyParts(_, _)
stringifyParts(array, n) ==
  IF n = 0 THEN << >>
  ELSE pushRawHTML(stringifyParts(array, n - 1), toHTML(array[n]))

\* The clean-up of the Raw wrappers around pure character data.
cleanUpRaw(result) ==
  IF result.kind = "null" THEN result
  ELSE ArrayNode([j \in 1..Len(result.items) |->
                    IF result.items[j].kind = "Raw" /\ isPureChars(result.items[j].value)
                    THEN StringNode(result.items[j].value)
                    ELSE result.items[j]])

RECURSIVE doesAttributeValueHaveSpecials(_)
doesAttributeValueHaveSpecials(v) ==
  IF v.kind \in {"Special", "function"} THEN TRUE
  ELSE IF v.kind = "array"
    THEN \E i \in 1..Len(v.items) : doesAttributeValueHaveSpecials(v.items[i])
  ELSE FALSE

RECURSIVE optimizeParts(_)
RECURSIVE optimizeArrayLoop(_, _, _)

\* The body of the loop of optimizeArrayParts for array[i], given the part
\* optimizePartsFunc returned for it.
optimizeArrayPart(array, i, result, part) ==
  IF part.kind # "null"
  THEN ArrayNode(Append(IF result.kind = "null" THEN stringifyParts(array, i - 1)
                        ELSE result.items,
                        part))
  ELSE IF result.kind # "null"
    THEN ArrayNode(pushRawHTML(result.items, toHTML(array[i])))
  ELSE result

optimizeArrayLoop(array, i, result) ==
  IF i > Len(array) THEN result
  ELSE optimizeArrayLoop(array, i + 1,
                         optimizeArrayPart(array, i, result, optimizeParts(array[i])))

optimizeArrayParts(array, forceOptimize) ==
  cleanUpRaw(optimizeArrayLoop(array, 1,
                               IF forceOptimize THEN ArrayNode(<< >>) ELSE NullNode))

\* HTML.getTag(node.tagName).apply(null, newChildren) with newTag.attrs =
\* node.attrs: the tag of that name and those attributes over the new
\* children.
newTagOf(node, newChildren) ==
  IF newChildren.kind = "null" THEN NullNode
  ELSE Tag(node.tagName, node.attrs, newChildren.items)

optimizeParts(node) ==
  IF node.kind \in {"null", "string", "CharRef", "Comment", "Raw"} THEN NullNode
  ELSE IF node.kind = "Tag"
    THEN IF node.tagName = <<"T", "E", "X", "T", "A", "R", "E", "A">> THEN node
         ELSE newTagOf(node,
                       optimizeArrayParts(
                         node.children,
                         /\ node.attrs.kind = "object"
                         /\ \E i \in 1..Len(node.attrs.entries) :
                              doesAttributeValueHaveSpecials(node.attrs.entries[i][2])))
  ELSE IF node.kind = "array" THEN optimizeArrayParts(node.items, FALSE)
  ELSE node

\* The end of optimize, given what optimizeParts returned for the tree.
optimizedOr(tree, optTree) ==
  IF optTree.kind # "null" THEN optTree
  ELSE IF isPureChars(toHTML(tree)) THEN StringNode(toHTML(tree))
  ELSE Raw(toHTML(tree))

optimize(tree) == optimizedOr(tree, optimizeParts(tree))

----------------------------------------------------------------------------
(* Code generation.  Generated code is a JavaScript string; a JavaScript   *)
(* object is the sequence of its <<key, value>> entries in insertion order. *)

\* JSON.stringify of a string.  The characters U+2028, U+2029 and the
\* surrogates, which toJSLiteral escapes afterwards, are not among the
\* characters of the inputs.
toJSLiteral(obj) ==
  LET RECURSIVE chars(_)
      chars(s) ==
        IF s = << >> THEN ""
        ELSE (IF s[1] = "\"" THEN "\\\""
              ELSE IF s[1] = "\\" THEN "\\\\"
              ELSE IF s[1] = "\n" THEN "\\n"
              ELSE IF s[1] = "\t" THEN "\\t"
              ELSE s[1]) \o chars(Tail(s))
  IN  "\"" \o chars(obj) \o "\""

\* toJSLiteral(argValue) for the value of an argument of the given type.
toJSLiteralOf(argType, argValue) ==
  IF argType = "STRING" THEN toJSLiteral(argValue)
  ELSE IF argType = "NUMBER"
    THEN (IF argValue < 0 THEN "-" \o ToString(0 - argValue) ELSE ToString(argValue))
  ELSE IF argType = "BOOLEAN" THEN (IF argValue THEN "true" ELSE "false")
  ELSE "null"

\* A key that is an identifier name stands bare, any other as a literal.
toObjectLiteralKey(k) ==
  IF /\ k # << >>
     /\ k[1] \in IdentStart
     /\ \A i \in 1..Len(k) : k[i] \in IdentPart
  THEN Str(k)
  ELSE toJSLiteral(k)

makeObjectLiteral(obj) ==
  "{" \o JoinStr([i \in 1..Len(obj) |-> toObjectLiteralKey(obj[i][1]) \o ": " \o obj[i][2]],
                 ", ") \o "}"

\* A slip: a new key goes before the others.
SetKeyMutant(obj, k, v) ==
  IF \E i \in 1..Len(obj) : obj[i][1] = k
  THEN [i \in 1..Len(obj) |-> IF obj[i][1] = k THEN <<k, v>> ELSE obj[i]]
  ELSE << <<k, v>> >> \o obj

\* obj[k] = v: a key the object has keeps its place, a new key goes last.
SetKey(obj, k, v) ==
  IF \E i \in 1..Len(obj) : obj[i][1] = k
  THEN [i \in 1..Len(obj) |-> IF obj[i][1] = k THEN <<k, v>> ELSE obj[i]]
  ELSE Append(obj, <<k, v>>)

codeGenPath(path) ==
  IF Len(path) > 1
  THEN "Spacebars.dot(self.lookup(" \o toJSLiteral(path[1]) \o "), "
         \o JoinStr([i \in 1..(Len(path) - 1) |-> toJSLiteral(path[i + 1])], ", ") \o ")"
  ELSE "self.lookup(" \o toJSLiteral(path[1]) \o ")"

\* tag.args, which getSpecialTag deletes when empty.
argsOf(tag) == IF "args" \in DOMAIN tag THEN tag.args ELSE << >>

\* argCode of codeGenArgs for one argument.
argCodeOf(arg) ==
  IF arg[1] = "PATH" THEN codeGenPath(arg[2]) ELSE toJSLiteralOf(arg[1], arg[2])

\* A slip: a keyword argument is pushed where it stands, in a Spacebars.kw
\* call of its own.
codeGenArgMutant(st, arg) ==
  IF Len(arg) > 2
  THEN [st EXCEPT !.args = Append(st.args, "Spacebars.kw({" \o Str(arg[3]) \o ": "
                                             \o argCodeOf(arg) \o "})")]
  ELSE [st EXCEPT !.args = Append(st.args, argCodeOf(arg))]

\* The body of the loop of codeGenArgs for one argument: st is
\* [args, kwArgs, hasKwArgs], hasKwArgs telling kwArgs from null.
codeGenArg(st, arg) ==
  IF Len(arg) > 2
  THEN [st EXCEPT !.kwArgs = SetKey(st.kwArgs, arg[3], argCodeOf(arg)),
                  !.hasKwArgs = TRUE]
  ELSE [st EXCEPT !.args = Append(st.args, argCodeOf(arg))]

\* The end of codeGenArgs: kwArgs in an options dictionary at the end of
\* args.
codeGenArgsEnd(st) ==
  IF st.hasKwArgs
  THEN Append(st.args, "Spacebars.kw(" \o makeObjectLiteral(st.kwArgs) \o ")")
  ELSE st.args

NoArgsState == [args |-> << >>, kwArgs |-> << >>, hasKwArgs |-> FALSE]

\* codeGenArgs(tagArgs): the array of sources; the empty sequence stands for
\* null, as the array is never empty.
codeGenArgs(tagArgs) ==
  LET RECURSIVE loop(_, _)
      loop(i, st) ==
        IF i > Len(tagArgs) THEN st ELSE loop(i + 1, codeGenArg(st, tagArgs[i]))
  IN  codeGenArgsEnd(loop(1, NoArgsState))

\* The return of codeGenMustache for the array argCode of codeGenArgs.
mustacheCode(path, mustacheType, argCode) ==
  "Spacebars." \o mustacheType \o "(" \o codeGenPath(path)
    \o (IF argCode # << >> THEN ", " \o JoinStr(argCode, ", ") ELSE "")
    \o ")"

codeGenMustache(tag, mustacheType) ==
  mustacheCode(tag.path, mustacheType, codeGenArgs(argsOf(tag)))

\* A slip: the parts of an array are not looked at.
RECURSIVE convertSpecialToEmitCodeMutant(_)
convertSpecialToEmitCodeMutant(v) ==
  IF v.kind = "Special"
  THEN EmitCode("function () { return " \o codeGenMustache(v.value, "mustache") \o "; }")
  ELSE v

RECURSIVE convertSpecialToEmitCode(_)
convertSpecialToEmitCode(v) ==
  IF v.kind = "Special"
  THEN EmitCode("function () { return " \o codeGenMustache(v.value, "mustache") \o "; }")
  ELSE IF v.kind = "array"
    THEN ArrayNode([i \in 1..Len(v.items) |-> convertSpecialToEmitCode(v.items[i])])
  ELSE v

\* foundSpecials: convertSpecialToEmitCode met a Special in the value.
RECURSIVE foundSpecialsIn(_)
foundSpecialsIn(v) ==
  IF v.kind = "Special" THEN TRUE
  ELSE IF v.kind = "array" THEN \E i \in 1..Len(v.items) : foundSpecialsIn(v.items[i])
  ELSE FALSE

\* The value of the attribute name of an object, NullNode when it has none.
attrOf(entries, name) ==
  IF \E i \in 1..Len(entries) : entries[i][1] = name
  THEN entries[CHOOSE i \in 1..Len(entries) : entries[i][1] = name][2]
  ELSE NullNode

\* dynamics: oldAttrs.$specials when it has a length, or the empty sequence
\* for null.
dynamicsOf(entries) ==
  IF attrOf(entries, <<"$", "s", "p", "e", "c", "i", "a", "l", "s">>).kind = "array"
  THEN attrOf(entries, <<"$", "s", "p", "e", "c", "i", "a", "l", "s">>).items
  ELSE << >>

\* newAttrs after the loop over oldAttrs: the attributes whose name does not
\* begin with "$", converted.
newAttrsOf(entries) ==
  LET RECURSIVE loop(_, _)
      loop(i, obj) ==
        IF i > Len(entries) THEN obj
        ELSE loop(i + 1,
                  IF CharAt(entries[i][1], 0) # "$"
                  THEN SetKey(obj, entries[i][1], convertSpecialToEmitCode(entries[i][2]))
                  ELSE obj)
  IN  loop(1, << >>)

\* newAttrs.$dynamic
dynamicOf(dynamics) ==
  ArrayNode([i \in 1..Len(dynamics) |->
               EmitCode("function () { return "
                          \o codeGenMustache(dynamics[i].value, "attrMustache") \o "; }")])

\* A slip: an object is always copied.
returnsOldAttrsMutant(oldAttrs) == oldAttrs.kind = "null"

\* The two returns of oldAttrs itself: if (! oldAttrs), and
\* if ((! dynamics) && (! foundSpecials)).
returnsOldAttrs(oldAttrs) ==
  \/ oldAttrs.kind = "null"
  \/ /\ dynamicsOf(oldAttrs.entries) = << >>
     /\ ~ \E i \in 1..Len(oldAttrs.entries) :
            /\ CharAt(oldAttrs.entries[i][1], 0) # "$"
            /\ foundSpecialsIn(oldAttrs.entries[i][2])

\* Spacebars._handleSpecialAttributes
handleSpecialAttributes(oldAttrs) ==
  IF returnsOldAttrs(oldAttrs) THEN oldAttrs
  ELSE IF dynamicsOf(oldAttrs.entries) # << >>
    THEN Attrs(SetKey(newAttrsOf(oldAttrs.entries), <<"$", "d", "y", "n", "a", "m", "i", "c">>,
                      dynamicOf(dynamicsOf(oldAttrs.entries))))
  ELSE Attrs(newAttrsOf(oldAttrs.entries))

builtInComponents ==
  << <<"content", "__content">>, <<"elseContent", "__elseContent">>, <<"if", "UI.If">>,
     <<"unless", "UI.Unless">>, <<"with", "UI.With">>, <<"each", "UI.Each">> >>

\* A slip: the first segment alone decides, however long the path is.
compCodeOfMutant(path) ==
  IF \E i \in 1..Len(builtInComponents) : builtInComponents[i][1] = Str(path[1])
  THEN builtInComponents[CHOOSE i \in 1..Len(builtInComponents) :
                           builtInComponents[i][1] = Str(path[1])][2]
  ELSE IF Len(path) # 1 THEN codeGenPath(path)
  ELSE "(Template[" \o toJSLiteral(path[1]) \o "] || " \o codeGenPath(path) \o ")"

\* compCode of an INCLUSION or BLOCKOPEN tag.
compCodeOf(path) ==
  IF Len(path) # 1 THEN codeGenPath(path)
  ELSE IF \E i \in 1..Len(builtInComponents) : builtInComponents[i][1] = Str(path[1])
    THEN builtInComponents[CHOOSE i \in 1..Len(builtInComponents) :
                             builtInComponents[i][1] = Str(path[1])][2]
  ELSE "(Template[" \o toJSLiteral(path[1]) \o "] || " \o codeGenPath(path) \o ")"

\* A slip: the number of positional arguments is not looked at.
wrapsPathMutant(path, n) == Len(path) # 1

\* if (! ((path.length === 1) || (numPosArgs > 1))): the path code is wrapped
\* in a function.
wrapsPath(path, n) == ~ ((Len(path) = 1) \/ (n > 1))

\* argCode of codeGenInclusionArgs for one argument of a tag with n
\* positional arguments.
inclusionArgCode(arg, n) ==
  IF arg[1] # "PATH" THEN toJSLiteralOf(arg[1], arg[2])
  ELSE IF wrapsPath(arg[2], n)
    THEN "function () { return Spacebars.call(" \o codeGenPath(arg[2]) \o "); }"
  ELSE codeGenPath(arg[2])

\* The body of the loop of codeGenInclusionArgs for one argument: st is
\* [args, posArgs].
inclusionArg(st, arg, argCode) ==
  IF Len(arg) > 2
  THEN [st EXCEPT !.args = SetKey(st.args, arg[3], argCode)]
  ELSE [st EXCEPT !.posArgs = Append(st.posArgs, argCode)]

\* The end of codeGenInclusionArgs: args.data, and the array returned, empty
\* or of one object literal.  args is returned with it.
inclusionArgsEnd(st) ==
  IF Len(st.posArgs) = 1
  THEN SetKey(st.args, <<"d", "a", "t", "a">>, st.posArgs[1])
  ELSE IF Len(st.posArgs) > 1
    THEN SetKey(st.args, <<"d", "a", "t", "a">>,
                "function () { return Spacebars.call(" \o JoinStr(st.posArgs, ", ") \o "); }")
  ELSE st.args

RECURSIVE codeGen(_, _)

\* The beginning of codeGenInclusionArgs: args.__content and
\* args.__elseContent.
inclusionArgsBegin(tag) ==
  [args |->
     (IF "content" \in DOMAIN tag
      THEN << << <<"_", "_", "c", "o", "n", "t", "e", "n", "t">>,
                 "UI.block(" \o codeGen(tag.content, [given |-> FALSE]) \o ")" >> >>
      ELSE << >>)
     \o (IF "elseContent" \in DOMAIN tag
         THEN << << <<"_", "_", "e", "l", "s", "e", "C", "o", "n", "t", "e", "n", "t">>,
                    "UI.block(" \o codeGen(tag.elseContent, [given |-> FALSE]) \o ")" >> >>
         ELSE << >>),
   posArgs |-> << >>]

\* codeGenInclusionArgs(tag): the args object, empty for null.
codeGenInclusionArgs(tag) ==
  LET RECURSIVE loop(_, _)
      loop(i, st) ==
        IF i > Len(argsOf(tag)) THEN st
        ELSE loop(i + 1,
                  inclusionArg(st, argsOf(tag)[i],
                               inclusionArgCode(argsOf(tag)[i], numPosArgs(argsOf(tag)))))
  IN  inclusionArgsEnd(loop(1, inclusionArgsBegin(tag)))

\* replaceSpecials of a Special, a thrown Error for an unexpected type.
specialCode(tag) ==
  IF tag.type = "DOUBLE"
  THEN EmitCode("function () { return " \o codeGenMustache(tag, "mustache") \o "; }")
  ELSE IF tag.type = "TRIPLE"
    THEN EmitCode("function () { return Spacebars.makeRaw("
                    \o codeGenMustache(tag, "mustache") \o "); }")
  ELSE IF tag.type \in {"INCLUSION", "BLOCKOPEN"}
    THEN EmitCode("function () { return Spacebars.include(" \o compCodeOf(tag.path)
                    \o (IF codeGenInclusionArgs(tag) # << >>
                        THEN ", " \o makeObjectLiteral(codeGenInclusionArgs(tag))
                        ELSE "")
                    \o "); }")
  ELSE [kind |-> "Error", value |-> "Unexpected template tag type: " \o tag.type]

RECURSIVE replaceSpecials(_)
replaceSpecials(node) ==
  IF node.kind = "Tag"
  THEN Tag(node.tagName, handleSpecialAttributes(node.attrs),
           [i \in 1..Len(node.children) |-> replaceSpecials(node.children[i])])
  ELSE IF node.kind = "array"
    THEN ArrayNode([i \in 1..Len(node.items) |-> replaceSpecials(node.items[i])])
  ELSE IF node.kind = "Special" THEN specialCode(node.value)
  ELSE node

\* toCode of an attribute name: (/^[a-zA-Z]+$/.test(k) ? k : toJSLiteral(k))
attrKeyCode(k) ==
  IF k # << >> /\ \A i \in 1..Len(k) : k[i] \in LowerLetters \cup UpperLetters
  THEN Str(k)
  ELSE toJSLiteral(k)

RECURSIVE toCode(_)

attributeValueToCode(v) ==
  IF v.kind = "array"
  THEN "[" \o JoinStr([i \in 1..Len(v.items) |-> toCode(v.items[i])], ", ") \o "]"
  ELSE toCode(v)

\* The code of the tree: a tag is a call of UI.Tag.<tagName>, with the
\* attributes as the first argument when it has them.
toCode(node) ==
  IF node.kind = "EmitCode" THEN node.value
  ELSE IF node.kind = "Tag"
    THEN "UI.Tag." \o Str(node.tagName) \o "("
           \o JoinStr((IF node.attrs.kind = "object"
                       THEN <<"{" \o JoinStr([i \in 1..Len(node.attrs.entries) |->
                                                attrKeyCode(node.attrs.entries[i][1]) \o ": "
                                                  \o attributeValueToCode(node.attrs.entries[i][2])],
                                             ", ") \o "}">>
                       ELSE << >>)
                      \o [i \in 1..Len(node.children) |-> toCode(node.children[i])],
                      ", ")
           \o ")"
  ELSE IF node.kind = "CharRef"
    THEN "UI.Tag.CharRef({html: " \o toJSLiteral(node.html) \o ", str: "
           \o toJSLiteral(node.str) \o "})"
  ELSE IF node.kind = "Comment" THEN "UI.Tag.Comment(" \o toJSLiteral(node.value) \o ")"
  ELSE IF node.kind = "array"
    THEN "[" \o JoinStr([i \in 1..Len(node.items) |-> toCode(node.items[i])], ", ") \o "]"
  ELSE IF node.kind = "string" THEN toJSLiteral(node.value)
  ELSE ""

\* No Package.minifiers: the code is not beautified.
beautify(code) == code

\* The code of codeGen from the tree after replaceSpecials and the value of
\* isTemplate: "undefined", "true" or "false".
codeOf(tree, isTemplate) ==
  beautify("(function () { var self = this; "
             \o (IF isTemplate = "true"
                 THEN "var __content = self.__content, __elseContent = self.__elseContent; "
                 ELSE "")
             \o "return " \o toCode(tree) \o "; })")

\* var isTemplate = (options && options.isTemplate): options is not given,
\* or an object with isTemplate.
isTemplateOf(options) ==
  IF options.given THEN options.isTemplate ELSE "undefined"

\* Spacebars.codeGen(parseTree, options).  isTemplate is read before it is
\* assigned: it is undefined there, and the tree is not optimized.
codeGen(parseTree, options) ==
  codeOf(replaceSpecials(parseTree), isTemplateOf(options))

----------------------------------------------------------------------------
(* Inputs of the scanner: tag sources put together from an opener, a path, *)
(* up to MaxArgs arguments and a closer, embedded between a prefix and a   *)
(* suffix.                                                                 *)

MaxArgs == 3

TagOpeners ==
  { <<"{", "{">>, <<"{", "{", "{">>, <<"{", "{", ">", " ">>, <<"{", "{", "#">>,
    <<"{", "{", "/">>, <<"{", "{", "!">>, <<"{", "{", " ", "E", "l", "s", "e">>,
    <<"{", "{", "#", "/">> }

TagPaths ==
  { << >>, <<"a">>, <<"a", ".", "b">>, <<".", ".", "/", "a">>, <<"[", "a", " ", "]">>,
    <<"t", "h", "i", "s">> }

TagArgs ==
  { <<" ", "b">>, <<" ", "k", "=", "c", ".", "d">>, <<" ", "-", "1">>,
    <<" ", "'", "s", "'">> }

TagClosers == { <<"}", "}">>, <<" ", "}", "}", "}">>, <<"}">> }

\* What stands before and after the tag source in the input.
Surroundings ==
  { << << >>, << >> >>, << <<"{">>, <<"}">> >>, << <<"x", "\n">>, <<"y">> >>,
    << <<"{", "{", "a", " ">>, <<" ", "}", "}">> >> }

\* The sequences of exactly n elements of set, and of at most n.
RECURSIVE SeqsOfLen(_, _)
SeqsOfLen(set, n) ==
  IF n = 0 THEN { << >> }
  ELSE { Append(q, e) : q \in SeqsOfLen(set, n - 1), e \in set }

SeqsUpTo(set, n) == UNION { SeqsOfLen(set, k) : k \in 0..n }

TagSources ==
  { o \o p \o Concat(as) \o c :
      o \in TagOpeners, p \in TagPaths, as \in SeqsUpTo(TagArgs, MaxArgs), c \in TagClosers }

(* Inputs of the parser: templates of up to MaxParts parts, each a         *)
(* character of text or a stache tag.                                      *)

MaxParts == 4

TemplateParts ==
  { <<"x">>,
    <<"{", "{", "#", "a", "}", "}">>,
    <<"{", "{", "/", "a", "}", "}">>,
    <<"{", "{", "/", "b", "}", "}">>,
    <<"{", "{", "e", "l", "s", "e", "}", "}">>,
    <<"{", "{", "E", "l", "s", "e", " ", "}", "}">>,
    <<"{", "{", "b", " ", "1", "}", "}">>,
    <<"{", "{", "/", "}", "}">> }

Templates == { Concat(ps) : ps \in SeqsUpTo(TemplateParts, MaxParts) }

----------------------------------------------------------------------------
(* Inputs of the optimizer and of the code generator: trees of up to       *)
(* MaxChildren parts in an array or a tag.                                 *)

MaxChildren == 2

\* The characters of a string.
Chars(str) == [i \in 1..Len(str) |-> SubSeq(str, i, i)]

Text(str) == StringNode(Chars(str))

\* The tag getSpecialTag makes of the source of a stache tag.
stacheOf(src) == cleanStache(parseStacheTag(Chars(src), 0).tag)

TextArea(children) == Tag(Chars("TEXTAREA"), NullNode, children)

\* Parts free of Special nodes.
PlainParts ==
  << Text("a"), Text("a<b"), Text("&"),
     Raw(Chars("<i>")), Raw(Chars("y")),
     CharRef(Chars("&amp;"), Chars("&")),
     Comment(Chars("c--d-")),
     NullNode,
     TextArea(<<Text("t<")>>),
     Tag(Chars("DIV"), Attrs(<< <<Chars("id"), Text("a\"&")>> >>),
         <<Text("x"), TextArea(<< >>)>>),
     ArrayNode(<<Text("b"), TextArea(<< >>), Text("c&")>>),
     Tag(Chars("P"), NullNode, <<Text("p"), Raw(Chars("<q>"))>>) >>

\* Parts with Special nodes, as the parser makes them.
SpecialParts ==
  << Special(stacheOf("{{a}}")),
     Special(stacheOf("{{{a.b 1 k=c}}}")),
     Special(stacheOf("{{> t 's'}}")),
     Special(With(With(stacheOf("{{#if x}}"), "content",
                       Tag(Chars("B"), NullNode, <<Text("yes")>>)),
                  "elseContent", Text("no"))),
     Special(With(stacheOf("{{#each a.b}}"), "content", Special(stacheOf("{{c}}")))),
     Tag(Chars("DIV"),
         Attrs(<< <<Chars("class"),
                    ArrayNode(<<Text("x"), ArrayNode(<<Special(stacheOf("{{a}}"))>>)>>)>>,
                  <<Chars("$specials"), ArrayNode(<<Special(stacheOf("{{attrs}}"))>>)>> >>),
         <<Special(stacheOf("{{a}}"))>>),
     Tag(Chars("I"), Attrs(<< <<Chars("id"), Special(stacheOf("{{a}}"))>> >>), << >>),
     Tag(Chars("P"), Attrs(<< <<Chars("id"), Text("z")>> >>), <<Text("q<")>>) >>

\* The trees over a sequence of parts: a part, or an array or a tag of up to
\* MaxChildren parts.
TreeShapes == {"part", "array", "SPAN"}

ChildChoices(parts) == SeqsUpTo(1..Len(parts), MaxChildren)

TreeOf(parts, shape, choice) ==
  IF shape = "part" THEN parts[IF choice = << >> THEN 1 ELSE choice[1]]
  ELSE IF shape = "array" THEN ArrayNode([i \in 1..Len(choice) |-> parts[choice[i]]])
  ELSE Tag(Chars(shape), NullNode, [i \in 1..Len(choice) |-> parts[choice[i]]])

\* options of codeGen: none, or an object with isTemplate.
NoOptions == [given |-> FALSE]
OptionsChoices ==
  { NoOptions, [given |-> TRUE, isTemplate |-> "true"],
    [given |-> TRUE, isTemplate |-> "false"] }

(* Inputs of codeGenInclusionArgs: the INCLUSION and BLOCKOPEN tags of     *)
(* sources with up to MaxArgs arguments, a block with its content and with *)
(* or without else content.                                                *)

InclusionOpeners == { "{{> ", "{{#" }
InclusionPaths == { "if", "a.b", "foo", "each.b" }
\* Paths of the tags without arguments: the other built-in names and this.
BuiltInPaths == { "content", "elseContent", "unless", "with", "each", "this" }
InclusionArgSources == << " x", " y.z", " k=u", " d=v.w", " 's'", " __content=u" >>

InclusionSources ==
  { Chars(o \o p) \o Concat([i \in 1..Len(as) |-> Chars(InclusionArgSources[as[i]])])
      \o Chars("}}") :
      o \in InclusionOpeners, p \in InclusionPaths,
      as \in SeqsUpTo(1..Len(InclusionArgSources), MaxArgs) }
  \cup { Chars(o \o p \o "}}") : o \in InclusionOpeners, p \in BuiltInPaths }

(* Inputs of optimizeArrayParts: arrays and tags of up to MaxRunParts      *)
(* children, plain ones and dynamic ones; the tag A has a Special in an    *)
(* attribute, so that its children are optimized in any case.              *)

MaxRunParts == 3

RunParts ==
  << Text("a"), Text("a<b"), Raw(Chars("<i>")), NullNode,
     CharRef(Chars("&amp;"), Chars("&")), Comment(Chars("c")),
     Tag(Chars("P"), NullNode, <<Text("p")>>),
     TextArea(<<Text("t")>>),
     Special(stacheOf("{{a}}")),
     ArrayNode(<<Text("b"), Special(stacheOf("{{c}}"))>>) >>

RunShapes == {"array", "SPAN", "A"}

RunTreeOf(shape, choice) ==
  IF shape = "array" THEN ArrayNode([i \in 1..Len(choice) |-> RunParts[choice[i]]])
  ELSE Tag(Chars(shape),
           IF shape = "A"
           THEN Attrs(<< <<Chars("href"), Special(stacheOf("{{u}}"))>> >>)
           ELSE NullNode,
           [i \in 1..Len(choice) |-> RunParts[choice[i]]])

(* Inputs of the start patterns: two braces followed by up to              *)
(* MaxStartTokens braces, spaces, sigils, names and else.                  *)

MaxStartTokens == 3
StartTokens == << "{", " ", ">", "!", "#", "/", "else", "Else", "}", "a" >>

StartSources ==
  { Chars("{{") \o Concat([i \in 1..Len(ts) |-> Chars(StartTokens[ts[i]])]) :
      ts \in SeqsUpTo(1..Len(StartTokens), MaxStartTokens) }

(* Inputs of scanPath: the DOUBLE tags whose body is put together from up  *)
(* to MaxPathTokens dots, slashes and names.                               *)

MaxPathTokens == 5
PathTokens == << ".", "..", "/", "x", "this" >>

PathSources ==
  { Chars("{{") \o Concat([i \in 1..Len(ts) |-> Chars(PathTokens[ts[i]])]) \o Chars("}}") :
      ts \in SeqsUpTo(1..Len(PathTokens), MaxPathTokens) }

(* Inputs of _handleSpecialAttributes: null, and the objects of up to      *)
(* MaxAttrs attributes of different names, without $specials or with       *)
(* $specials after them.                                                   *)

MaxAttrs == 2

AttrEntries ==
  << <<Chars("id"), Text("z")>>,
     <<Chars("class"), ArrayNode(<<Text("x"), ArrayNode(<<Special(stacheOf("{{a}}"))>>)>>)>>,
     <<Chars("href"), Special(stacheOf("{{u 1 k=v}}"))>>,
     <<Chars("title"), ArrayNode(<<Text("t"), CharRef(Chars("&amp;"), Chars("&"))>>)>> >>

SpecialsEntries ==
  << << >>,
     << <<Chars("$specials"), ArrayNode(<< >>)>> >>,
     << <<Chars("$specials"), ArrayNode(<<Special(stacheOf("{{attrs}}"))>>)>> >>,
     << <<Chars("$specials"),
          ArrayNode(<<Special(stacheOf("{{a.b}}")), Special(stacheOf("{{c d k=1}}"))>>)>> >> >>

AttrsInputs ==
  { NullNode }
    \cup { Attrs([i \in 1..Len(ns) |-> AttrEntries[ns[i]]] \o SpecialsEntries[s]) :
             ns \in { c \in SeqsUpTo(1..Len(AttrEntries), MaxAttrs) :
                        \A i, j \in 1..Len(c) : i # j => c[i] # c[j] },
             s \in 1..Len(SpecialsEntries) }

(* Inputs of codeGenMustache: the DOUBLE and TRIPLE tags of sources with   *)
(* up to MaxArgs arguments.                                                *)

MustacheOpeners == << <<"{{", "}}">>, <<"{{{", "}}}">> >>
MustacheArgSources == << " x", " y.z", " k=u", " k=1", " 's'" >>

MustacheSources ==
  { Chars(MustacheOpeners[o][1] \o "foo")
      \o Concat([i \in 1..Len(as) |-> Chars(MustacheArgSources[as[i]])])
      \o Chars(MustacheOpeners[o][2]) :
      o \in 1..Len(MustacheOpeners),
      as \in SeqsUpTo(1..Len(MustacheArgSources), MaxArgs) }

----------------------------------------------------------------------------
(* State *)

VARIABLES
  \* one call of Spacebars.parseStacheTag(inputString, startPos)
  inputString,   \* the argument inputString
  startPos,      \* the argument pos
  tagSource,     \* the tag source that begins at startPos in inputString
  stachePc,      \* "call", then "returned" or "threw"
  stache,        \* the result: [ok, tag] or [ok, error]
  \* one call of Spacebars.parse(input)
  scanner,       \* the scanner of the fragment parser: [input, pos]
  frames,        \* the fragments being read, innermost last: the template's
                 \* own, then one for the content or else content of each
                 \* open block
  parsePc,       \* "running", then "done" or "fatal"
  parseError,    \* the message of the error that ended the parse
  tree,          \* what Spacebars.parse returned
  \* one call of optimize(tree)
  optInput,      \* the argument tree
  optTree,       \* the variable optTree
  optPc,         \* "parts", "whole", then "returned"
  optimized,     \* what optimize returned
  \* one call of Spacebars.codeGen(parseTree, options)
  cgParseTree,   \* the argument parseTree
  cgOptions,     \* the argument options
  cgTree,        \* the variable tree
  cgIsTemplate,  \* the variable isTemplate: "undefined", "true" or "false"
  cgCode,        \* the variable code
  cgPc,          \* "optimize", "replaceSpecials", "isTemplate", "code", "returned"
  \* replaceSpecials of the Special of an INCLUSION or BLOCKOPEN tag, with
  \* its call of codeGenInclusionArgs(tag)
  incTag,        \* the tag
  incCompCode,   \* the variable compCode
  incIndex,      \* the index of the next argument of the second _.each
  incState,      \* the variables args and posArgs
  incPc,         \* "compCode", "begin", "args", then "returned"
  incArgs,       \* args at the return
  \* one call of codeGenMustache(tag, mustacheType)
  musTag,        \* the argument tag
  musType,       \* mustacheType, 'mustache' when not given
  musIndex,      \* the index of the next argument of _.each(tagArgs, ...)
  musState,      \* the variables args and kwArgs of codeGenArgs
  musPc,         \* "args", then "returned"
  musArgCode,    \* the variable argCode, what codeGenArgs returned
  musCode,       \* what codeGenMustache returned
  \* one call of Spacebars._handleSpecialAttributes(oldAttrs)
  hsaInput,      \* the object given, as it was at the call
  hsaOld,        \* the object oldAttrs refers to, as it is now
  hsaResult,     \* what the call returned: [same, attrs], same telling
                 \* that it is the object oldAttrs refers to
  hsaPc          \* "call", then "returned"

stacheVars == <<inputString, startPos, tagSource, stachePc, stache>>
parseVars == <<scanner, frames, parsePc, parseError, tree>>
optVars == <<optInput, optTree, optPc, optimized>>
cgVars == <<cgParseTree, cgOptions, cgTree, cgIsTemplate, cgCode, cgPc>>
incVars == <<incTag, incCompCode, incIndex, incState, incPc, incArgs>>
musVars == <<musTag, musType, musIndex, musState, musPc, musArgCode, musCode>>
hsaVars == <<hsaInput, hsaOld, hsaResult, hsaPc>>

vars == <<stacheVars, parseVars, optVars, cgVars, incVars, musVars, hsaVars>>

NoResult == [ok |-> FALSE, error |-> ""]
NoTree == [kind |-> "none"]

----------------------------------------------------------------------------
(* A call of Spacebars.parseStacheTag *)

StacheInit ==
  \E sur \in Surroundings, src \in TagSources :
    /\ inputString = sur[1] \o src \o sur[2]
    /\ startPos = Len(sur[1])
    /\ tagSource = src
    /\ stachePc = "call"
    /\ stache = NoResult

\* A call on a tag whose body is a path of dots, slashes and names.
PathInit ==
  \E src \in PathSources :
    /\ inputString = src
    /\ startPos = 0
    /\ tagSource = src
    /\ stachePc = "call"
    /\ stache = NoResult

\* A call on an input that begins with two braces.
StartsInit ==
  \E src \in StartSources :
    /\ inputString = src
    /\ startPos = 0
    /\ tagSource = src
    /\ stachePc = "call"
    /\ stache = NoResult

StacheIdle ==
  /\ inputString = << >>
  /\ startPos = 0
  /\ tagSource = << >>
  /\ stachePc = "idle"
  /\ stache = NoResult

ParseStacheTagCall ==
  /\ stachePc = "call"
  /\ stache' = parseStacheTag(inputString, startPos)
  /\ stachePc' = IF stache'.ok THEN "returned" ELSE "threw"
  /\ UNCHANGED <<inputString, startPos, tagSource>>
  /\ UNCHANGED <<parseVars, optVars, cgVars, incVars, musVars, hsaVars>>

----------------------------------------------------------------------------
(* A call of Spacebars.parse *)

ParseInit ==
  \E input \in Templates :
    /\ scanner = [input |-> input, pos |-> 0]
    /\ frames = << [part |-> "top", items |-> << >>] >>
    /\ parsePc = "running"
    /\ parseError = ""
    /\ tree = NoTree

ParseIdle ==
  /\ scanner = [input |-> << >>, pos |-> 0]
  /\ frames = << >>
  /\ parsePc = "idle"
  /\ parseError = ""
  /\ tree = NoTree

AtEOF == scanner.pos >= Len(scanner.input)
InBlock == Len(frames) > 1

\* options.shouldStop of the innermost fragment: isAtBlockCloseOrElse inside
\* a block, none for the template's own fragment.
shouldStop ==
  IF InBlock THEN isAtBlockCloseOrElse(scanner) ELSE [ok |-> TRUE, value |-> FALSE]

\* The next state is the outcome of the step.
Becomes(out) ==
  /\ parsePc' = out.pc
  /\ parseError' = out.error
  /\ scanner' = [scanner EXCEPT !.pos = out.pos]
  /\ frames' = out.frames
  /\ tree' = tree
  /\ UNCHANGED <<stacheVars, optVars, cgVars, incVars, musVars, hsaVars>>

\* The fragment parser takes a character of text.
ParseChars ==
  /\ parsePc = "running"
  /\ ~ AtEOF
  /\ shouldStop.ok /\ ~ shouldStop.value
  /\ ~ HasPrefix(scanner.input, scanner.pos, <<"{", "{">>)
  /\ Becomes(Goes(scanner.pos + 1,
                  withTopItems(frames,
                               pushOrAppendString(topItems(frames),
                                                  CharAt(scanner.input, scanner.pos)))))

\* The fragment parser asks shouldStop, and parseStacheTag throws in it.
ShouldStopThrows ==
  /\ parsePc = "running"
  /\ ~ AtEOF
  /\ ~ shouldStop.ok
  /\ Becomes(Fatal(scanner, shouldStop.error))

\* getSpecialTag at a "{{" where the fragment does not stop.
GetSpecialTag ==
  /\ parsePc = "running"
  /\ ~ AtEOF
  /\ shouldStop.ok /\ ~ shouldStop.value
  /\ HasPrefix(scanner.input, scanner.pos, <<"{", "{">>)
  /\ Becomes(getSpecialTagOf(scanner, frames, parseStacheTag(scanner.input, scanner.pos)))

\* The fragment of a block's content or else content has returned, at the
\* end of the input or where shouldStop holds: getSpecialTag goes on.
EndOfBlockFragment ==
  /\ parsePc = "running"
  /\ InBlock
  /\ AtEOF \/ (shouldStop.ok /\ shouldStop.value)
  /\ Becomes(endOfFragment(scanner, frames))

\* The template's own fragment has reached the end of the input.
ParseReturns ==
  /\ parsePc = "running"
  /\ ~ InBlock
  /\ AtEOF
  /\ parsePc' = "done"
  /\ tree' = fragmentResult(topItems(frames))
  /\ frames' = << >>
  /\ UNCHANGED <<scanner, parseError>>
  /\ UNCHANGED <<stacheVars, optVars, cgVars, incVars, musVars, hsaVars>>

----------------------------------------------------------------------------
(* A call of optimize *)

OptimizeInit ==
  \E shape \in TreeShapes, choice \in ChildChoices(PlainParts) :
    /\ optInput = TreeOf(PlainParts, shape, choice)
    /\ optTree = NullNode
    /\ optPc = "parts"
    /\ optimized = NullNode

\* A call on an array or a tag of plain and dynamic children.
OptimizeRunsInit ==
  \E shape \in RunShapes, choice \in SeqsUpTo(1..Len(RunParts), MaxRunParts) :
    /\ optInput = RunTreeOf(shape, choice)
    /\ optTree = NullNode
    /\ optPc = "parts"
    /\ optimized = NullNode

OptimizeIdle ==
  /\ optInput = NullNode
  /\ optTree = NullNode
  /\ optPc = "idle"
  /\ optimized = NullNode

\* var optTree = optimizeParts(tree); if (optTree !== null) return optTree;
OptimizePartsCall ==
  /\ optPc = "parts"
  /\ optTree' = optimizeParts(optInput)
  /\ IF optTree'.kind # "null"
     THEN optPc' = "returned" /\ optimized' = optTree'
     ELSE optPc' = "whole" /\ optimized' = optimized
  /\ UNCHANGED optInput
  /\ UNCHANGED <<stacheVars, parseVars, cgVars, incVars, musVars, hsaVars>>

\* optTree = HTML.Raw(HTML.toHTML(tree)), returned as its value if that is
\* pure character data.
OptimizeWhole ==
  /\ optPc = "whole"
  /\ optTree' = Raw(toHTML(optInput))
  /\ optimized' = optimizedOr(optInput, optTree)
  /\ optPc' = "returned"
  /\ UNCHANGED optInput
  /\ UNCHANGED <<stacheVars, parseVars, cgVars, incVars, musVars, hsaVars>>

----------------------------------------------------------------------------
(* A call of Spacebars.codeGen *)

CodeGenInit ==
  \E shape \in TreeShapes, choice \in ChildChoices(SpecialParts), options \in OptionsChoices :
    /\ cgParseTree = TreeOf(SpecialParts, shape, choice)
    /\ cgOptions = options
    /\ cgTree = cgParseTree
    /\ cgIsTemplate = "undefined"
    /\ cgCode = ""
    /\ cgPc = "optimize"

CodeGenIdle ==
  /\ cgParseTree = NullNode
  /\ cgOptions = NoOptions
  /\ cgTree = NullNode
  /\ cgIsTemplate = "undefined"
  /\ cgCode = ""
  /\ cgPc = "idle"

\* if (isTemplate) tree = optimize(tree);
CodeGenOptimize ==
  /\ cgPc = "optimize"
  /\ cgTree' = IF cgIsTemplate = "true" THEN optimize(cgTree) ELSE cgTree
  /\ cgPc' = "replaceSpecials"
  /\ UNCHANGED <<cgParseTree, cgOptions, cgIsTemplate, cgCode>>
  /\ UNCHANGED <<stacheVars, parseVars, optVars, incVars, musVars, hsaVars>>

\* tree = replaceSpecials(tree);
CodeGenReplaceSpecials ==
  /\ cgPc = "replaceSpecials"
  /\ cgTree' = replaceSpecials(cgTree)
  /\ cgPc' = "isTemplate"
  /\ UNCHANGED <<cgParseTree, cgOptions, cgIsTemplate, cgCode>>
  /\ UNCHANGED <<stacheVars, parseVars, optVars, incVars, musVars, hsaVars>>

\* var isTemplate = (options && options.isTemplate);
CodeGenIsTemplate ==
  /\ cgPc = "isTemplate"
  /\ cgIsTemplate' = isTemplateOf(cgOptions)
  /\ cgPc' = "code"
  /\ UNCHANGED <<cgParseTree, cgOptions, cgTree, cgCode>>
  /\ UNCHANGED <<stacheVars, parseVars, optVars, incVars, musVars, hsaVars>>

\* The code is put together, beautified and returned.
CodeGenReturns ==
  /\ cgPc = "code"
  /\ cgCode' = codeOf(cgTree, cgIsTemplate)
  /\ cgPc' = "returned"
  /\ UNCHANGED <<cgParseTree, cgOptions, cgTree, cgIsTemplate>>
  /\ UNCHANGED <<stacheVars, parseVars, optVars, incVars, musVars, hsaVars>>

----------------------------------------------------------------------------
(* A call of codeGenInclusionArgs *)

NoInclusionState == [args |-> << >>, posArgs |-> << >>]

\* The tag of the call: getSpecialTag's tag for the source, a block with
\* its content and, or not, its else content.
InclusionTagOf(r, withElse) ==
  IF r.tag.type = "BLOCKOPEN"
  THEN IF withElse
       THEN With(With(cleanStache(r.tag), "content", Text("c")), "elseContent", NullNode)
       ELSE With(cleanStache(r.tag), "content", Special(stacheOf("{{e}}")))
  ELSE cleanStache(r.tag)

InclusionInit ==
  \E src \in InclusionSources, withElse \in BOOLEAN :
    /\ parseStacheTag(src, 0).ok
    /\ incTag = InclusionTagOf(parseStacheTag(src, 0), withElse)
    /\ incCompCode = ""
    /\ incIndex = 1
    /\ incState = NoInclusionState
    /\ incPc = "compCode"
    /\ incArgs = << >>

InclusionIdle ==
  /\ incTag = [type |-> "INCLUSION"]
  /\ incCompCode = ""
  /\ incIndex = 1
  /\ incState = NoInclusionState
  /\ incPc = "idle"
  /\ incArgs = << >>

\* var compCode, the built-in or the Template lookup for a path of one
\* segment.
InclusionCompCode ==
  /\ incPc = "compCode"
  /\ incCompCode' = compCodeOf(incTag.path)
  /\ incPc' = "begin"
  /\ UNCHANGED <<incTag, incIndex, incState, incArgs>>
  /\ UNCHANGED <<stacheVars, parseVars, optVars, cgVars, musVars, hsaVars>>

\* args.__content, args.__elseContent and numPosArgs.
InclusionArgsBegin ==
  /\ incPc = "begin"
  /\ incState' = inclusionArgsBegin(incTag)
  /\ incPc' = "args"
  /\ UNCHANGED <<incTag, incCompCode, incIndex, incArgs>>
  /\ UNCHANGED <<stacheVars, parseVars, optVars, cgVars, musVars, hsaVars>>

\* One argument of the second _.each(tag.args, ...).
InclusionArg ==
  /\ incPc = "args"
  /\ incIndex <= Len(argsOf(incTag))
  /\ incState' = inclusionArg(incState, argsOf(incTag)[incIndex],
                              inclusionArgCode(argsOf(incTag)[incIndex],
                                               numPosArgs(argsOf(incTag))))
  /\ incIndex' = incIndex + 1
  /\ UNCHANGED <<incTag, incCompCode, incPc, incArgs>>
  /\ UNCHANGED <<stacheVars, parseVars, optVars, cgVars, musVars, hsaVars>>

\* args.data and the return.
InclusionArgsEnd ==
  /\ incPc = "args"
  /\ incIndex > Len(argsOf(incTag))
  /\ incArgs' = inclusionArgsEnd(incState)
  /\ incPc' = "returned"
  /\ UNCHANGED <<incTag, incCompCode, incIndex, incState>>
  /\ UNCHANGED <<stacheVars, parseVars, optVars, cgVars, musVars, hsaVars>>

----------------------------------------------------------------------------
(* A call of codeGenMustache *)

MustacheInit ==
  \E src \in MustacheSources, mustacheType \in {"mustache", "attrMustache"} :
    /\ parseStacheTag(src, 0).ok
    /\ musTag = cleanStache(parseStacheTag(src, 0).tag)
    /\ musType = mustacheType
    /\ musIndex = 1
    /\ musState = NoArgsState
    /\ musPc = "args"
    /\ musArgCode = << >>
    /\ musCode = ""

MustacheIdle ==
  /\ musTag = [type |-> "DOUBLE"]
  /\ musType = "mustache"
  /\ musIndex = 1
  /\ musState = NoArgsState
  /\ musPc = "idle"
  /\ musArgCode = << >>
  /\ musCode = ""

\* One argument of _.each(tagArgs, ...) in codeGenArgs.
MustacheArg ==
  /\ musPc = "args"
  /\ musIndex <= Len(argsOf(musTag))
  /\ musState' = codeGenArg(musState, argsOf(musTag)[musIndex])
  /\ musIndex' = musIndex + 1
  /\ UNCHANGED <<musTag, musType, musPc, musArgCode, musCode>>
  /\ UNCHANGED <<stacheVars, parseVars, optVars, cgVars, incVars, hsaVars>>

\* The end of codeGenArgs and the return of codeGenMustache.
MustacheReturns ==
  /\ musPc = "args"
  /\ musIndex > Len(argsOf(musTag))
  /\ musArgCode' = codeGenArgsEnd(musState)
  /\ musCode' = mustacheCode(musTag.path, musType, codeGenArgsEnd(musState))
  /\ musPc' = "returned"
  /\ UNCHANGED <<musTag, musType, musIndex, musState>>
  /\ UNCHANGED <<stacheVars, parseVars, optVars, cgVars, incVars, hsaVars>>

----------------------------------------------------------------------------
(* A call of Spacebars._handleSpecialAttributes *)

NoAttrsResult == [same |-> FALSE, attrs |-> NullNode]

HandleSpecialAttributesInit ==
  \E oldAttrs \in AttrsInputs :
    /\ hsaInput = oldAttrs
    /\ hsaOld = oldAttrs
    /\ hsaResult = NoAttrsResult
    /\ hsaPc = "call"

HandleSpecialAttributesIdle ==
  /\ hsaInput = NullNode
  /\ hsaOld = NullNode
  /\ hsaResult = NoAttrsResult
  /\ hsaPc = "idle"

\* The whole call: nothing is assigned to oldAttrs or to a property of it,
\* and the return is oldAttrs or the new object newAttrs.
HandleSpecialAttributesCall ==
  /\ hsaPc = "call"
  /\ hsaResult' = [same |-> returnsOldAttrs(hsaOld), attrs |-> handleSpecialAttributes(hsaOld)]
  /\ hsaPc' = "returned"
  /\ UNCHANGED <<hsaInput, hsaOld>>
  /\ UNCHANGED <<stacheVars, parseVars, optVars, cgVars, incVars, musVars>>

----------------------------------------------------------------------------
(* Specifications *)

InitStache == StacheInit /\ ParseIdle /\ OptimizeIdle /\ CodeGenIdle /\ InclusionIdle
  /\ MustacheIdle /\ HandleSpecialAttributesIdle
NextStache == ParseStacheTagCall
SpecStache == InitStache /\ [][NextStache]_vars

InitPath == PathInit /\ ParseIdle /\ OptimizeIdle /\ CodeGenIdle /\ InclusionIdle
  /\ MustacheIdle /\ HandleSpecialAttributesIdle
SpecPath == InitPath /\ [][NextStache]_vars

InitStarts == StartsInit /\ ParseIdle /\ OptimizeIdle /\ CodeGenIdle /\ InclusionIdle
  /\ MustacheIdle /\ HandleSpecialAttributesIdle
SpecStarts == InitStarts /\ [][NextStache]_vars

InitParse == StacheIdle /\ ParseInit /\ OptimizeIdle /\ CodeGenIdle /\ InclusionIdle
  /\ MustacheIdle /\ HandleSpecialAttributesIdle
NextParse ==
  \/ ParseChars
  \/ ShouldStopThrows
  \/ GetSpecialTag
  \/ EndOfBlockFragment
  \/ ParseReturns
SpecParse == InitParse /\ [][NextParse]_vars

InitOptimize == StacheIdle /\ ParseIdle /\ OptimizeInit /\ CodeGenIdle /\ InclusionIdle
  /\ MustacheIdle /\ HandleSpecialAttributesIdle
NextOptimize == OptimizePartsCall \/ OptimizeWhole
SpecOptimize == InitOptimize /\ [][NextOptimize]_vars

InitOptimizeRuns == StacheIdle /\ ParseIdle /\ OptimizeRunsInit /\ CodeGenIdle /\ InclusionIdle
  /\ MustacheIdle /\ HandleSpecialAttributesIdle
SpecOptimizeRuns == InitOptimizeRuns /\ [][NextOptimize]_vars

InitCodeGen == StacheIdle /\ ParseIdle /\ OptimizeIdle /\ CodeGenInit /\ InclusionIdle
  /\ MustacheIdle /\ HandleSpecialAttributesIdle
NextCodeGen ==
  \/ CodeGenOptimize
  \/ CodeGenReplaceSpecials
  \/ CodeGenIsTemplate
  \/ CodeGenReturns
SpecCodeGen == InitCodeGen /\ [][NextCodeGen]_vars

InitInclusion == StacheIdle /\ ParseIdle /\ OptimizeIdle /\ CodeGenIdle /\ InclusionInit
  /\ MustacheIdle /\ HandleSpecialAttributesIdle
NextInclusion ==
  \/ InclusionCompCode
  \/ InclusionArgsBegin
  \/ InclusionArg
  \/ InclusionArgsEnd
SpecInclusion == InitInclusion /\ [][NextInclusion]_vars

InitMustache ==
  /\ StacheIdle /\ ParseIdle /\ OptimizeIdle /\ CodeGenIdle /\ InclusionIdle /\ MustacheInit
  /\ HandleSpecialAttributesIdle
NextMustache == MustacheArg \/ MustacheReturns
SpecMustache == InitMustache /\ [][NextMustache]_vars

InitAttrs ==
  /\ StacheIdle /\ ParseIdle /\ OptimizeIdle /\ CodeGenIdle /\ InclusionIdle /\ MustacheIdle
  /\ HandleSpecialAttributesInit
NextAttrs == HandleSpecialAttributesCall
SpecAttrs == InitAttrs /\ [][NextAttrs]_vars

----------------------------------------------------------------------------
(* Claims about parseStacheTag, checked under SpecStache *)

\* The tag source, scanned on its own from offset 0, is a whole tag.
WellFormedAlone(src) ==
  /\ parseStacheTag(src, 0).ok
  /\ parseStacheTag(src, 0).tag.charLength = Len(src)

\* C2: a well-formed tag source embedded in a longer input, scanned at the
\* offset where it begins, gives a tag whose charPos is that offset and whose
\* charLength is the length of the tag source, whatever stands before and
\* after it.
C2_ConsumesExactlyTheTag ==
  (stachePc # "call" /\ WellFormedAlone(tagSource)) =>
    /\ stachePc = "returned"
    /\ stache.tag.charPos = startPos
    /\ stache.tag.charLength = Len(tagSource)

C2_Witness ==
  /\ stachePc = "returned"
  /\ startPos = 4
  /\ Len(inputString) = startPos + Len(tagSource) + 3
  /\ WellFormedAlone(tagSource)
  /\ stache.tag.type = "BLOCKOPEN"
  /\ Len(stache.tag.args) = 2
  /\ stache.tag.charLength = Len(tagSource)

\* The positional arguments: the entries without a keyword name.
PositionalArgs(args) == {i \in 1..Len(args) : Len(args[i]) < 3}

\* The tag source with its inclusion sigil replaced by the block sigil: the
\* same path and arguments, read by a tag kind that allows any number of
\* positional arguments.
AsBlockOpen(src) == <<"{", "{", "#">> \o SliceFrom(src, 3)

ManyPositionalMessage(s, pos) ==
  "Only one positional argument is allowed here at " \o prettyOffset(s, pos)

\* C6: no INCLUSION tag is returned with more than one positional argument,
\* and an inclusion whose path and arguments scan with two or more
\* positional arguments fails with "Only one positional argument is allowed
\* here", however many keyword arguments stand between them.
C6_InclusionOnePositional ==
  /\ (stachePc = "returned" /\ stache.tag.type = "INCLUSION") =>
       Cardinality(PositionalArgs(stache.tag.args)) <= 1
  /\ (/\ stachePc # "call"
      /\ HasPrefix(tagSource, 0, <<"{", "{", ">">>)
      /\ parseStacheTag(AsBlockOpen(tagSource), 0).ok
      /\ Cardinality(PositionalArgs(parseStacheTag(AsBlockOpen(tagSource), 0).tag.args)) > 1) =>
       /\ stachePc = "threw"
       /\ stache.error =
            ManyPositionalMessage(
              inputString,
              startPos + parseStacheTag(AsBlockOpen(tagSource), 0).tag.charLength)

\* An inclusion with two positional arguments and a keyword argument between
\* them was refused.
C6_Witness ==
  /\ stachePc = "threw"
  /\ HasPrefix(tagSource, 0, <<"{", "{", ">">>)
  /\ parseStacheTag(AsBlockOpen(tagSource), 0).ok
  /\ Len(parseStacheTag(AsBlockOpen(tagSource), 0).tag.args) = 3
  /\ PositionalArgs(parseStacheTag(AsBlockOpen(tagSource), 0).tag.args) = {1, 3}
  /\ stache.error = ManyPositionalMessage(inputString, startPos + Len(tagSource))

----------------------------------------------------------------------------
(* Claims about Spacebars.parse *)

\* The stache tags of a tree, as a bag would count them: the number of
\* Special nodes of the given types in node, contents of blocks included.
RECURSIVE CountTags(_, _)
CountTagsIn(items, types) ==
  LET RECURSIVE Sum(_)
      Sum(i) == IF i > Len(items) THEN 0 ELSE CountTags(items[i], types) + Sum(i + 1)
  IN Sum(1)

CountTags(node, types) ==
  IF node.kind = "array" THEN CountTagsIn(node.items, types)
  ELSE IF node.kind = "Special"
    THEN (IF node.value.type \in types THEN 1 ELSE 0)
         + (IF "content" \in DOMAIN node.value
            THEN CountTags(node.value.content, types) ELSE 0)
         + (IF "elseContent" \in DOMAIN node.value
            THEN CountTags(node.value.elseContent, types) ELSE 0)
  ELSE 0

\* The tags of the given types in what the parse holds: the items of the
\* fragments being read, and the tree returned.
RECURSIVE CountHeld(_, _, _)
CountHeld(fs, t, types) ==
  IF fs = << >> THEN (IF t = NoTree THEN 0 ELSE CountTags(t, types))
  ELSE CountTagsIn(fs[Len(fs)].items, types)
       + CountHeld(SubSeq(fs, 1, Len(fs) - 1), t, types)

\* The tag at the scanner's position.
TagAhead == parseStacheTag(scanner.input, scanner.pos)

\* The fragment of the innermost block has ended.
BlockFragmentEnded ==
  /\ parsePc = "running"
  /\ InBlock
  /\ AtEOF \/ (shouldStop.ok /\ shouldStop.value)

OpenBlock == frames[Len(frames)]

\* At the scanner's position stands a BLOCKCLOSE tag whose joined path is
\* that of the innermost open block.
MatchingCloseAhead ==
  /\ HasPrefix(scanner.input, scanner.pos, <<"{", "{">>)
  /\ TagAhead.ok
  /\ TagAhead.tag.type = "BLOCKCLOSE"
  /\ blockNameOf(TagAhead.tag.path) = blockNameOf(OpenBlock.stache.path)

\* At the scanner's position stands an ELSE tag, after the content of the
\* innermost open block.
ElseAheadAfterContent ==
  /\ HasPrefix(scanner.input, scanner.pos, <<"{", "{">>)
  /\ OpenBlock.part = "content"
  /\ TagAhead.ok
  /\ TagAhead.tag.type = "ELSE"

C3_Step ==
  /\ CountHeld(frames', tree', {"BLOCKOPEN"}) > CountHeld(frames, tree, {"BLOCKOPEN"})
       => /\ BlockFragmentEnded
          /\ MatchingCloseAhead
          /\ scanner'.pos = scanner.pos + TagAhead.tag.charLength
  /\ (BlockFragmentEnded /\ ~ MatchingCloseAhead /\ ~ ElseAheadAfterContent)
       => /\ parsePc' = "fatal"
          /\ tree' = NoTree
          /\ frames' = << >>
  /\ tree' # NoTree => parsePc' = "done" /\ frames' = << >>

\* C3: a BLOCKOPEN tag enters what the parse holds only in a step that,
\* after the block's content or else content, finds a BLOCKCLOSE tag with
\* the opener's comma-joined path and moves the scanner past it; when the
\* fragment of a block ends at anything else (but the ELSE after the
\* content), the parse ends in a fatal error and returns no tree.
C3_BlockOnlyWithMatchingClose == [][C3_Step]_vars

\* A parse has returned a tree with a block inside a block.
C3_Witness ==
  /\ parsePc = "done"
  /\ CountTags(tree, {"BLOCKOPEN"}) >= 2

\* str contains sub.
Contains(str, sub) ==
  \E i \in 1..(Len(str) - Len(sub) + 1) : SubSeq(str, i, i + Len(sub) - 1) = sub

\* getSpecialTag is called: the fragment does not stop at a "{{".
GetSpecialTagCalled ==
  /\ parsePc = "running"
  /\ ~ AtEOF
  /\ shouldStop.ok /\ ~ shouldStop.value
  /\ HasPrefix(scanner.input, scanner.pos, <<"{", "{">>)

C4_Step ==
  /\ (GetSpecialTagCalled /\ TagAhead.ok /\ TagAhead.tag.type \in {"ELSE", "BLOCKCLOSE"})
       => /\ parsePc' = "fatal"
          /\ tree' = NoTree
          /\ TagAhead.tag.type = "ELSE" => Contains(parseError', "unexpected {{else}}")
  /\ CountHeld(frames', tree', {"ELSE", "BLOCKCLOSE"}) = 0

\* C4: when getSpecialTag is called at an ELSE or BLOCKCLOSE tag, the parse
\* ends in a fatal error, whose message for ELSE says "unexpected {{else}}",
\* and no ELSE or BLOCKCLOSE tag is ever among the tags the parse holds.
C4_ElseOrCloseOutsideIsFatal == [][C4_Step]_vars

\* An ELSE tag met by getSpecialTag after some input has ended the parse.
C4_Witness ==
  /\ parsePc = "fatal"
  /\ parseError = "Found unexpected {{else}}}"
  /\ scanner.pos > 0
  /\ TagAhead.ok /\ TagAhead.tag.type = "ELSE"

\* The closing tag of the innermost open block names another block.
MismatchedCloseAhead ==
  /\ BlockFragmentEnded
  /\ HasPrefix(scanner.input, scanner.pos, <<"{", "{">>)
  /\ ~ ElseAheadAfterContent
  /\ TagAhead.ok
  /\ TagAhead.tag.type = "BLOCKCLOSE"
  /\ blockNameOf(TagAhead.tag.path) # blockNameOf(OpenBlock.stache.path)

C5_Step ==
  MismatchedCloseAhead
    => /\ parsePc' = "fatal"
       /\ parseError' = "Expected tag to close " \o Str(blockNameOf(OpenBlock.stache.path))
                          \o ", found " \o Str(blockNameOf(TagAhead.tag.path))

\* C5: when the closing tag of a block has a comma-joined path other than
\* the opener's, the parse ends in a fatal error whose message is
\* "Expected tag to close <opener's joined path>, found <closing tag's
\* joined path>".
C5_MessageNamesFoundTag == [][C5_Step]_vars

\* The block returned by the step: the last item of the fragment that
\* holds the innermost block.
BlockReturned == frames'[Len(frames')].items[Len(frames'[Len(frames')].items)].value

C15_Step ==
  \* the parts of a block follow one another in one order
  /\ (InBlock /\ parsePc' = "running" /\ Len(frames') = Len(frames))
       => \/ frames'[Len(frames')].part = OpenBlock.part
          \/ /\ OpenBlock.part = "content"
             /\ frames'[Len(frames')].part = "elseContent"
             /\ BlockFragmentEnded
             /\ ElseAheadAfterContent
             /\ frames'[Len(frames')].stache.content = fragmentResult(OpenBlock.items)
  \* the tag returned has else content only if its else content was read
  /\ (InBlock /\ parsePc' = "running" /\ Len(frames') < Len(frames))
       => /\ BlockFragmentEnded
          /\ MatchingCloseAhead
          /\ "content" \in DOMAIN BlockReturned
          /\ "elseContent" \in DOMAIN BlockReturned <=> OpenBlock.part = "elseContent"
          /\ OpenBlock.part = "elseContent"
               => BlockReturned.elseContent = fragmentResult(OpenBlock.items)
  \* an ELSE after the else content is fatal
  /\ (BlockFragmentEnded /\ OpenBlock.part = "elseContent"
        /\ HasPrefix(scanner.input, scanner.pos, <<"{", "{">>)
        /\ TagAhead.ok /\ TagAhead.tag.type = "ELSE")
       => parsePc' = "fatal" /\ scanner'.pos = scanner.pos
  \* the scanner goes past an ELSE or a BLOCKCLOSE only when it is accepted
  /\ BlockFragmentEnded
       => IF ElseAheadAfterContent \/ MatchingCloseAhead
          THEN parsePc' = "running" /\ scanner'.pos = scanner.pos + TagAhead.tag.charLength
          ELSE parsePc' = "fatal" /\ scanner'.pos = scanner.pos
  /\ (GetSpecialTagCalled /\ TagAhead.ok /\ TagAhead.tag.type \in {"ELSE", "BLOCKCLOSE"})
       => parsePc' = "fatal" /\ scanner'.pos = scanner.pos

\* C15: within a block the parser reads the content, then at most one ELSE
\* with the else content, then the close tag: elseContent is set only if an
\* ELSE tag stood right after the content, a second ELSE after the else
\* content is a fatal error, and the scanner moves past an ELSE or a
\* BLOCKCLOSE tag only when the tag is accepted.
C15_ContentElseClose == [][C15_Step]_vars

\* The parse of {{#a}}{{else}}{{else}}{{/a}} has ended at the second ELSE.
C15_Witness ==
  /\ parsePc = "fatal"
  /\ scanner = [input |-> Chars("{{#a}}{{else}}{{else}}{{/a}}"), pos |-> 14]
  /\ parseError = "Expected tag to close a, found ELSE"

\* Inside a block the scanner stands at the two braces of a tag that
\* parseStacheTag parses.
TagAheadInBlock ==
  /\ parsePc = "running"
  /\ InBlock
  /\ HasPrefix(scanner.input, scanner.pos, <<"{", "{">>)
  /\ TagAhead.ok

C20_Step ==
  TagAheadInBlock
    => /\ (shouldStop.ok /\ shouldStop.value) <=> TagAhead.tag.type \in {"ELSE", "BLOCKCLOSE"}
       /\ (TagAhead.tag.type = "ELSE" /\ OpenBlock.part = "content")
            => /\ parsePc' = "running"
               /\ frames'[Len(frames')].part = "elseContent"
               /\ scanner'.pos = scanner.pos + TagAhead.tag.charLength

\* C20: in the content of a block, isAtBlockCloseOrElse is true at exactly
\* the tags to which parseStacheTag gives the type ELSE or BLOCKCLOSE; so
\* every tag of type ELSE right inside a block, in any letter case, ends
\* the content and is taken as the block's else, and does not reach the
\* error of an unexpected else.
C20_StopsAtEveryElse == [][C20_Step]_vars

----------------------------------------------------------------------------
(* Claims about optimize and Spacebars.codeGen *)

\* options.isTemplate is truthy.
IsTemplateOption == cgOptions.given /\ cgOptions.isTemplate = "true"

\* C1: when replaceSpecials is about to run, the tree is the optimized parse
\* tree if options.isTemplate is truthy, and the parse tree as it came
\* otherwise: the optimizer runs before replaceSpecials for a template.
C1_OptimizedBeforeReplaceSpecials ==
  cgPc = "replaceSpecials"
    => cgTree = IF IsTemplateOption THEN optimize(cgParseTree) ELSE cgParseTree

\* The node holds a Special: itself, among its children or items, or in the
\* value of an attribute, whatever the name of the attribute.
RECURSIVE HasSpecial(_)
HasSpecial(node) ==
  IF node.kind = "Special" THEN TRUE
  ELSE IF node.kind = "array" THEN \E i \in 1..Len(node.items) : HasSpecial(node.items[i])
  ELSE IF node.kind = "Tag"
    THEN \/ \E i \in 1..Len(node.children) : HasSpecial(node.children[i])
         \/ /\ node.attrs.kind = "object"
            /\ \E i \in 1..Len(node.attrs.entries) : HasSpecial(node.attrs.entries[i][2])
  ELSE FALSE

\* C7: the tree replaceSpecials returned holds no Special, neither among the
\* descendants of a tag nor in the value of an attribute, at any depth of
\* arrays, $specials and $dynamic included.
C7_NoSpecialAfterReplaceSpecials ==
  cgPc \in {"isTemplate", "code", "returned"} => ~ HasSpecial(cgTree)

\* replaceSpecials has returned for a tag whose children are a tag with a
\* Special child, a Special deep in an attribute value and $specials, and a
\* block with else content.
C7_Witness ==
  /\ cgPc = "isTemplate"
  /\ cgParseTree = TreeOf(SpecialParts, "SPAN", <<6, 4>>)
  /\ HasSpecial(cgParseTree.children[1].attrs.entries[1][2])
  /\ HasSpecial(cgParseTree.children[1].attrs.entries[2][2])
  /\ cgTree.children[1].attrs.entries[2][1] = Chars("$dynamic")

\* C8: the HTML of what optimize returns is the HTML of the tree it was
\* given.
C8_OptimizePreservesHTML ==
  optPc = "returned" => toHTML(optimized) = toHTML(optInput)

\* optimize has returned an array in which text with an ampersand became a
\* Raw next to a TEXTAREA tag left as it was.
C8_Witness ==
  /\ optPc = "returned"
  /\ optInput = ArrayNode(<<Text("&"), TextArea(<<Text("t<")>>)>>)
  /\ optimized = ArrayNode(<<Raw(Chars("&amp;")), TextArea(<<Text("t<")>>)>>)

----------------------------------------------------------------------------
(* Claims about codeGenInclusionArgs *)

\* The names of the keys of an object, in order.
KeysOf(obj) == [i \in 1..Len(obj) |-> Str(obj[i][1])]

\* A block with else content whose only argument is positional and a path
\* of one segment, as {{#if x}}...{{else}}...{{/if}}.
BlockWithOnePathSegment ==
  /\ incTag.type = "BLOCKOPEN"
  /\ "elseContent" \in DOMAIN incTag
  /\ Len(argsOf(incTag)) = 1
  /\ Len(argsOf(incTag)[1]) = 2
  /\ argsOf(incTag)[1][1] = "PATH"
  /\ Len(argsOf(incTag)[1][2]) = 1

\* C9 as stated: the keys are __content, __elseContent, data, and data is
\* the function that calls Spacebars.call on the lookup.
C9_DataIsThunk ==
  (incPc = "returned" /\ BlockWithOnePathSegment)
    => /\ KeysOf(incArgs) = <<"__content", "__elseContent", "data">>
       /\ incArgs[3][2] = "function () { return Spacebars.call(self.lookup(\""
                            \o Str(argsOf(incTag)[1][2][1]) \o "\")); }"

\* C9, amended: the keys are __content, __elseContent, data in that order,
\* and data is the bare lookup of the segment, self.lookup("x").
C9_DataIsBareLookup ==
  (incPc = "returned" /\ BlockWithOnePathSegment)
    => /\ KeysOf(incArgs) = <<"__content", "__elseContent", "data">>
       /\ incArgs[3][2] = "self.lookup(\"" \o Str(argsOf(incTag)[1][2][1]) \o "\")"

\* codeGenInclusionArgs has returned for {{#if x}} with else content.
C9_Witness ==
  /\ incPc = "returned"
  /\ BlockWithOnePathSegment
  /\ incTag.path = <<Chars("if")>>
  /\ argsOf(incTag)[1][2] = <<Chars("x")>>

\* The argument the loop is at.
ArgAt == argsOf(incTag)[incIndex]

\* The code the loop stored for the argument: under its name in args for a
\* keyword argument, last in posArgs for a positional one.
StoredCode(st, arg) ==
  IF Len(arg) > 2 THEN attrOf(st.args, arg[3]) ELSE st.posArgs[Len(st.posArgs)]

\* The code of a path of plain names: the lookup of the first, in
\* Spacebars.dot with the others when there are others.
PathCode(path) ==
  IF Len(path) = 1 THEN "self.lookup(\"" \o Str(path[1]) \o "\")"
  ELSE "Spacebars.dot(self.lookup(\"" \o Str(path[1]) \o "\"), "
         \o JoinStr([i \in 1..(Len(path) - 1) |-> "\"" \o Str(path[i + 1]) \o "\""], ", ")
         \o ")"

C10_Step ==
  (incPc = "args" /\ incIndex <= Len(argsOf(incTag)) /\ ArgAt[1] = "PATH")
    => StoredCode(incState', ArgAt) =
         IF Len(ArgAt[2]) > 1 /\ numPosArgs(argsOf(incTag)) <= 1
         THEN "function () { return Spacebars.call(" \o PathCode(ArgAt[2]) \o "); }"
         ELSE PathCode(ArgAt[2])

\* C10: the code stored for a PATH argument of an INCLUSION or BLOCKOPEN
\* tag, positional or keyword, is the path code wrapped in
\* function () { return Spacebars.call(...); } exactly when the path has
\* more than one segment and the tag has at most one positional argument,
\* and the bare path code otherwise.
C10_PathWrappedWhenDeferred == [][C10_Step]_vars

\* The loop has gone through a tag with two positional arguments and a
\* keyword argument that are paths of more than one segment.
C10_Witness ==
  /\ incPc = "returned"
  /\ numPosArgs(argsOf(incTag)) = 2
  /\ \E i \in 1..Len(argsOf(incTag)) :
       /\ Len(argsOf(incTag)[i]) = 3
       /\ argsOf(incTag)[i][1] = "PATH"
       /\ Len(argsOf(incTag)[i][2]) > 1
  /\ \A i \in 1..Len(argsOf(incTag)) :
       Len(argsOf(incTag)[i]) = 2 => Len(argsOf(incTag)[i][2]) > 1

----------------------------------------------------------------------------
(* Claims about the component of Spacebars.include *)

\* The literal the claim gives for a built-in name, "" for any other name.
BuiltInLiteral(name) ==
  IF name = "content" THEN "__content"
  ELSE IF name = "elseContent" THEN "__elseContent"
  ELSE IF name = "if" THEN "UI.If"
  ELSE IF name = "unless" THEN "UI.Unless"
  ELSE IF name = "with" THEN "UI.With"
  ELSE IF name = "each" THEN "UI.Each"
  ELSE ""

\* C11: the component expression of an INCLUSION or BLOCKOPEN tag is the
\* built-in literal when the path is one segment that is a built-in name,
\* (Template["name"] || self.lookup("name")) when it is any other single
\* segment, and the plain Spacebars.dot path code when the path has two or
\* more segments, whatever its first segment is.
C11_ComponentExpression ==
  incPc \in {"begin", "args", "returned"}
    => incCompCode =
         IF Len(incTag.path) > 1 THEN PathCode(incTag.path)
         ELSE IF BuiltInLiteral(Str(incTag.path[1])) # ""
           THEN BuiltInLiteral(Str(incTag.path[1]))
         ELSE "(Template[\"" \o Str(incTag.path[1]) \o "\"] || self.lookup(\""
                \o Str(incTag.path[1]) \o "\"))"

\* compCode has been computed for a path of two segments whose first is a
\* built-in name.
C11_Witness ==
  /\ incPc = "returned"
  /\ incTag.path = <<Chars("each"), Chars("b")>>
  /\ incCompCode = "Spacebars.dot(self.lookup(\"each\"), \"b\")"

----------------------------------------------------------------------------
(* Claims about codeGenMustache, checked under SpecMustache *)

\* The code the claim expects for the value of an argument: the path code
\* of a path, the literal of a string or a number.
ValueCode(arg) ==
  IF arg[1] = "PATH" THEN PathCode(arg[2])
  ELSE IF arg[1] = "STRING" THEN "\"" \o Str(arg[2]) \o "\""
  ELSE ToString(arg[2])

\* The codes of the positional arguments, in source order.
RECURSIVE PositionalCodes(_)
PositionalCodes(args) ==
  IF args = << >> THEN << >>
  ELSE (IF Len(args[1]) = 2 THEN <<ValueCode(args[1])>> ELSE << >>)
         \o PositionalCodes(Tail(args))

\* The keyword arguments that no later argument of the same name follows,
\* in the order in which their names first stand in the source: a later
\* value takes the place of an earlier one of the same name.
KeywordEntries(args) ==
  LET firsts == SelectSeq([i \in 1..Len(args) |-> i],
                          LAMBDA i : /\ Len(args[i]) = 3
                                     /\ \A j \in 1..(i - 1) :
                                          Len(args[j]) = 3 => args[j][3] # args[i][3])
      last(i) == CHOOSE k \in i..Len(args) :
                   /\ Len(args[k]) = 3 /\ args[k][3] = args[i][3]
                   /\ \A j \in (k + 1)..Len(args) :
                        Len(args[j]) = 3 => args[j][3] # args[i][3]
  IN  [n \in 1..Len(firsts) |->
         Str(args[firsts[n]][3]) \o ": " \o ValueCode(args[last(firsts[n])])]

                 \o "Spacebars.kw({k: self.lookup(\"u\")}))"

----------------------------------------------------------------------------
(* Claims about scanPath, checked under SpecPath *)

\* The source is the whole tag src, and the call has ended.
CalledOn(src) == stachePc # "call" /\ tagSource = Chars(src)

\* C13 as stated: {{..}} gives the path [".."] and {{../../x}} gives the
\* path ["....", "x"].
C13_FourDotsForTwoSteps ==
  /\ CalledOn("{{..}}") => stache.ok /\ stache.tag.path = <<Chars("..")>>
  /\ CalledOn("{{../../x}}") => stache.ok /\ stache.tag.path = <<Chars("...."), Chars("x")>>

\* C13, amended: {{..}} gives the path [".."] and {{../../x}} gives the
\* path ["...", "x"], one dot and one more for each of the two steps.
C13_ThreeDotsForTwoSteps ==
  /\ CalledOn("{{..}}") => stache.ok /\ stache.tag.path = <<Chars("..")>>
  /\ CalledOn("{{../../x}}") => stache.ok /\ stache.tag.path = <<Chars("..."), Chars("x")>>

\* parseStacheTag has returned for {{../../x}}.
C13_Witness == CalledOn("{{../../x}}") /\ stachePc = "returned"

\* The type the start of the source gives the tag, one whose path scanPath
\* scans, and the body of the source: what follows the start.
TypeOfSource == firstStart(startsTypes, 1, tagSource, 0)
PathScanned == TypeOfSource \in {"DOUBLE", "TRIPLE", "INCLUSION", "BLOCKOPEN", "BLOCKCLOSE"}
Body == SliceFrom(tagSource, starts(TypeOfSource, tagSource, 0))

\* The run of dots and slashes the body begins with, without its last
\* slash, and its clauses.
DotRun == Slice(Body, 0, RunEnd(Body, 0, {".", "/"}))
EndsWithSlash == DotRun # << >> /\ DotRun[Len(DotRun)] = "/"
DotClauses ==
  SplitSlash(IF EndsWithSlash THEN Slice(DotRun, 0, Len(DotRun) - 1) ELSE DotRun, << >>)

\* The first clause is . or .. and every later clause is ..
ClausesAllowed ==
  /\ DotClauses[1] \in {Chars("."), Chars("..")}
  /\ \A i \in 2..Len(DotClauses) : DotClauses[i] = Chars("..")

\* k + 1 dots, k the number of .. clauses.
AncestorSegment ==
  [i \in 1..(Cardinality({j \in 1..Len(DotClauses) : DotClauses[j] = Chars("..")}) + 1) |-> "."]

\* The identifier this stands at offset p of the body.
ThisAt(p) == Slice(Body, p, p + 4) = Chars("this") /\ CharAt(Body, p + 4) \notin IdentPart

\* C17: for a path that begins with a run of dots and slashes, the first
\* segment is k + 1 dots, k the number of .. clauses of the run, whose
\* first clause must be . or .. and every later clause ..; further
\* segments are scanned if and only if the run ends with a slash; and the
\* identifier this becomes "." only as the first segment.
C17_DotsAndThis ==
  /\ (stachePc # "call" /\ PathScanned /\ DotRun # << >>)
       => /\ ~ ClausesAllowed => ~ stache.ok
          /\ stache.ok
               => /\ stache.tag.path[1] = AncestorSegment
                  /\ Len(stache.tag.path) > 1 <=> EndsWithSlash
                  /\ ThisAt(Len(DotRun)) /\ EndsWithSlash
                       => stache.tag.path[2] = Chars("this")
  /\ (stachePc = "returned" /\ PathScanned /\ DotRun = << >> /\ ThisAt(0))
       => stache.tag.path[1] = Chars(".")
  /\ (stachePc = "returned" /\ PathScanned)
       => \A i \in 2..Len(stache.tag.path) : stache.tag.path[i] # Chars(".")

\* parseStacheTag has returned for {{./../this}}: two clauses, one of them
\* .., a slash at the end of the run, and this as the second segment.
C17_Witness ==
  /\ CalledOn("{{./../this}}")
  /\ stachePc = "returned"
  /\ stache.tag.path = <<Chars(".."), Chars("this")>>

----------------------------------------------------------------------------
(* Claims about _handleSpecialAttributes, checked under SpecAttrs *)

\* The value holds a Special, at any depth of its arrays.
RECURSIVE HoldsSpecial(_)
HoldsSpecial(v) ==
  \/ v.kind = "Special"
  \/ v.kind = "array" /\ \E i \in 1..Len(v.items) : HoldsSpecial(v.items[i])

\* The object has the key name.
HasKey(attrs, name) ==
  attrs.kind # "null" /\ \E i \in 1..Len(attrs.entries) : attrs.entries[i][1] = Chars(name)

\* $specials is present and not empty.
SpecialsGiven ==
  /\ HasKey(hsaInput, "$specials")
  /\ \E i \in 1..Len(hsaInput.entries) :
       /\ hsaInput.entries[i][1] = Chars("$specials")
       /\ hsaInput.entries[i][2].items # << >>

\* No attribute value of the object given holds a Special.
NoSpecialInValues ==
  hsaInput.kind # "null"
    => \A i \in 1..Len(hsaInput.entries) :
         hsaInput.entries[i][1] # Chars("$specials") => ~ HoldsSpecial(hsaInput.entries[i][2])

\* C14: _handleSpecialAttributes returns the very object it was given,
\* unmodified, whenever no attribute value holds a Special at any array
\* depth and $specials is absent or empty; and the result has a $dynamic
\* key exactly when $specials was present and not empty.
C14_IdentityAndDynamic ==
  hsaPc = "returned"
    => /\ (NoSpecialInValues /\ ~ SpecialsGiven)
            => /\ hsaResult.same
               /\ hsaResult.attrs = hsaInput
               /\ hsaOld = hsaInput
       /\ HasKey(hsaResult.attrs, "$dynamic") <=> SpecialsGiven

\* The call has returned the object given, which has an attribute and an
\* empty $specials.
C14_Witness ==
  /\ hsaPc = "returned"
  /\ hsaResult.same
  /\ hsaInput = Attrs(<< <<Chars("id"), Text("z")>>, <<Chars("$specials"), ArrayNode(<< >>)>> >>)

----------------------------------------------------------------------------
(* Claims about the content of a block in codeGenInclusionArgs *)

\* The code under the key name of the args object, "" when it has no such
\* key.
CodeUnder(obj, name) ==
  IF \E i \in 1..Len(obj) : obj[i][1] = Chars(name)
  THEN obj[CHOOSE i \in 1..Len(obj) : obj[i][1] = Chars(name)][2]
  ELSE ""

\* C16: for every BLOCKOPEN tag, whatever the names of its arguments, the
\* object passed to Spacebars.include has __content equal to UI.block( +
\* codeGen(content) + ) and, when the block has an else part, __elseContent
\* equal to UI.block( + codeGen(elseContent) + ).
C16_ContentIsBlockOfContent ==
  (incPc = "returned" /\ incTag.type = "BLOCKOPEN")
    => /\ CodeUnder(incArgs, "__content")
            = "UI.block(" \o codeGen(incTag.content, NoOptions) \o ")"
       /\ "elseContent" \in DOMAIN incTag
            => CodeUnder(incArgs, "__elseContent")
                 = "UI.block(" \o codeGen(incTag.elseContent, NoOptions) \o ")"

----------------------------------------------------------------------------
(* Claims about optimizeArrayParts, checked under SpecOptimizeRuns *)

\* A child with nothing dynamic: a string, a Raw, a CharRef, a Comment,
\* null, or an array or a tag that has no Special in an attribute and
\* whose children have nothing dynamic.  textAreaToo tells whether a
\* TEXTAREA tag can be one.
RECURSIVE NothingDynamic(_, _)
NothingDynamic(node, textAreaToo) ==
  \/ node.kind \in {"null", "string", "Raw", "CharRef", "Comment"}
  \/ /\ node.kind = "array"
     /\ \A i \in 1..Len(node.items) : NothingDynamic(node.items[i], textAreaToo)
  \/ /\ node.kind = "Tag"
     /\ textAreaToo \/ node.tagName # Chars("TEXTAREA")
     /\ node.attrs.kind = "object"
          => \A i \in 1..Len(node.attrs.entries) : ~ HoldsSpecial(node.attrs.entries[i][2])
     /\ \A i \in 1..Len(node.children) : NothingDynamic(node.children[i], textAreaToo)

\* The one element that stands for a run of plain children with this HTML.
RunElement(html) ==
  IF \E i \in 1..Len(html) : html[i] \in {"&", "<"} THEN Raw(html) ELSE StringNode(html)

\* The elements the claim gives for the children from index i on, after a
\* run of plain children whose HTML so far is html (inRun tells that there
\* is such a run): one element for each maximal run of plain children, and
\* the dynamic parts in their order.
RECURSIVE RunsOf(_, _, _, _, _)
RunsOf(children, i, html, inRun, textAreaToo) ==
  IF i > Len(children) THEN (IF inRun THEN <<RunElement(html)>> ELSE << >>)
  ELSE IF NothingDynamic(children[i], textAreaToo)
    THEN RunsOf(children, i + 1, html \o toHTML(children[i]), TRUE, textAreaToo)
  ELSE (IF inRun THEN <<RunElement(html)>> ELSE << >>)
         \o <<optimizeParts(children[i])>>
         \o RunsOf(children, i + 1, << >>, FALSE, textAreaToo)

\* The array optimizeArrayParts was given and the array it returned, when
\* it returned one.
ArrayGiven == IF optInput.kind = "array" THEN optInput.items ELSE optInput.children
ArrayReturned == IF optTree.kind = "array" THEN optTree.items ELSE optTree.children
ReturnedArray == optPc # "parts" /\ optTree.kind \in {"array", "Tag"}

RawOrString(node) == node.kind \in {"Raw", "string"}

\* What the claim concludes of the array returned.
RunsAreJoined ==
  /\ \A i \in 1..(Len(ArrayReturned) - 1) :
       ~ (RawOrString(ArrayReturned[i]) /\ RawOrString(ArrayReturned[i + 1]))
  /\ \A i \in 1..Len(ArrayReturned) :
       ArrayReturned[i].kind = "Raw"
         => \E j \in 1..Len(ArrayReturned[i].value) : ArrayReturned[i].value[j] \in {"&", "<"}

\* C19 as stated: a TEXTAREA tag with nothing dynamic is a plain child like
\* any other tag with nothing dynamic.
C19_RunsOfPlainChildren ==
  ReturnedArray
    => ArrayReturned = RunsOf(ArrayGiven, 1, << >>, FALSE, TRUE) /\ RunsAreJoined

\* C19, amended: in every array optimizeArrayParts returns, each maximal
\* run of consecutive plain children (strings, Raw, CharRef, Comment, null,
\* arrays and tags other than TEXTAREA with nothing dynamic) is one element,
\* a string when its HTML has neither "&" nor "<" and a Raw otherwise; a
\* TEXTAREA tag is kept as an element of its own, like a dynamic part; no
\* two adjacent elements are both Raw or string, no Raw has a value of pure
\* characters, and the dynamic parts keep their order.
C19_RunsBetweenTextAreas ==
  ReturnedArray
    => ArrayReturned = RunsOf(ArrayGiven, 1, << >>, FALSE, FALSE) /\ RunsAreJoined

\* optimizeArrayParts has returned for a string, a tag with nothing
\* dynamic and a Special: the run of two is one Raw.
C19_Witness ==
  /\ ReturnedArray
  /\ optInput = ArrayNode(<<Text("a"), Tag(Chars("P"), NullNode, <<Text("p")>>),
                            Special(stacheOf("{{a}}"))>>)
  /\ optTree = ArrayNode(<<Raw(Chars("a<p>p</p>")), Special(stacheOf("{{a}}"))>>)

----------------------------------------------------------------------------
(* Claims about the start patterns, checked under SpecStarts *)

SixStarts == <<"DOUBLE", "TRIPLE", "COMMENT", "INCLUSION", "BLOCKOPEN", "BLOCKCLOSE">>

\* The patterns among the six that match the input.
MatchingStarts ==
  {i \in 1..Len(SixStarts) : starts(SixStarts[i], inputString, startPos) >= 0}

ElseMatches == starts("ELSE", inputString, startPos) >= 0

\* The six in another order: from the k-th on, then the ones before it,
\* and the six from the last to the first.
Rotated(k) == [i \in 1..Len(SixStarts) |-> SixStarts[((i + k - 2) % Len(SixStarts)) + 1]]
Reversed == [i \in 1..Len(SixStarts) |-> SixStarts[Len(SixStarts) + 1 - i]]

\* C18: at most one of the start patterns DOUBLE, TRIPLE, COMMENT,
\* INCLUSION, BLOCKOPEN, BLOCKCLOSE matches an input, so the type
\* parseStacheTag chooses does not depend on the order in which the six
\* are tried; ELSE overlaps no pattern but DOUBLE, and an input that
\* matches ELSE is given the type ELSE.
C18_StartsDisjoint ==
  /\ Cardinality(MatchingStarts) <= 1
  /\ \A k \in 1..Len(SixStarts) :
       firstStart(<<"ELSE">> \o Rotated(k), 1, inputString, startPos)
         = firstStart(startsTypes, 1, inputString, startPos)
  /\ firstStart(<<"ELSE">> \o Reversed, 1, inputString, startPos)
       = firstStart(startsTypes, 1, inputString, startPos)
  /\ ElseMatches
       => /\ \A i \in MatchingStarts : SixStarts[i] = "DOUBLE"
          /\ firstStart(startsTypes, 1, inputString, startPos) = "ELSE"
          /\ stachePc = "returned" => stache.tag.type = "ELSE"
  /\ (stachePc = "returned" /\ ~ ElseMatches)
       => \E i \in MatchingStarts : stache.tag.type = SixStarts[i]

\* parseStacheTag has returned an ELSE tag for {{Else}}, which matches
\* DOUBLE too.
C18_Witness ==
  /\ CalledOn("{{Else}}")
  /\ stachePc = "returned"
  /\ stache.tag.type = "ELSE"
  /\ starts("DOUBLE", inputString, startPos) >= 0

----------------------------------------------------------------------------
(* Termination of Spacebars.parse.  The parse is one synchronous call: a   *)
(* step that can be taken is taken, which is weak fairness of its steps.   *)

\* The inputs of the parses whose end is awaited: templates of up to
\* MaxParts parts, which nest blocks, fill them, leave them open, close
\* them twice, and hold a comment and a tag that does not parse.
NestingParts ==
  { <<"x">>,
    <<"{", "{", "#", "a", "}", "}">>,
    <<"{", "{", "/", "a", "}", "}">>,
    <<"{", "{", "e", "l", "s", "e", "}", "}">>,
    <<"{", "{", "!", "c", "}", "}">>,
    <<"{", "{", "b", "}", "}">>,
    <<"{", "{", "/", "}", "}">> }

NestingTemplates == { Concat(ps) : ps \in SeqsUpTo(NestingParts, MaxParts) }

\* Spacebars.parse is called on an input.
ParseCalled ==
  /\ parsePc = "idle"
  /\ \E input \in NestingTemplates :
       /\ scanner' = [input |-> input, pos |-> 0]
       /\ frames' = << [part |-> "top", items |-> << >>] >>
       /\ parsePc' = "running"
       /\ parseError' = ""
       /\ tree' = NoTree
  /\ UNCHANGED <<stacheVars, optVars, cgVars, incVars, musVars, hsaVars>>

InitParseCall == StacheIdle /\ ParseIdle /\ OptimizeIdle /\ CodeGenIdle /\ InclusionIdle
  /\ MustacheIdle /\ HandleSpecialAttributesIdle
NextParseCall ==
  \/ ParseCalled
  \/ ParseChars
  \/ ShouldStopThrows
  \/ GetSpecialTag
  \/ EndOfBlockFragment
  \/ ParseReturns

\* A parse that is running goes on: weak fairness of the steps of a running
\* parse, with their enabling condition written out.  In every running
\* state exactly one of ParseChars, ShouldStopThrows, GetSpecialTag,
\* EndOfBlockFragment and ParseReturns can be taken, so the steps are
\* enabled exactly while parsePc is "running", and none of them leaves the
\* state as it was (C21_NoStall for the steps of getSpecialTag; ParseChars
\* moves the scanner, ShouldStopThrows and ParseReturns change parsePc).
RunningParseSteps ==
  []<>(parsePc # "running") \/ []<><<NextParseCall>>_vars

SpecParseFair ==
  InitParseCall /\ [][NextParseCall]_vars /\ WF_vars(ParseCalled) /\ RunningParseSteps

\* getSpecialTag works on a "{{": it is called by the fragment parser, or
\* it goes on after the fragment of a block's content or else content.
GetSpecialTagAtStache ==
  /\ HasPrefix(scanner.input, scanner.pos, <<"{", "{">>)
  /\ GetSpecialTagCalled \/ BlockFragmentEnded

\* The scanner has moved forward, and not past the end of the input.
ScannerAdvanced ==
  /\ scanner'.input = scanner.input
  /\ scanner.pos < scanner'.pos
  /\ scanner'.pos <= Len(scanner.input)

C21_Step ==
  /\ (HasPrefix(scanner.input, scanner.pos, <<"{", "{">>) /\ TagAhead.ok)
       => /\ TagAhead.tag.charLength > 0
          /\ scanner.pos + TagAhead.tag.charLength <= Len(scanner.input)
  /\ GetSpecialTagAtStache
       => \/ parsePc' = "fatal" /\ scanner' = scanner
          \/ parsePc' = "running" /\ ScannerAdvanced
  /\ parsePc = "running"
       => \/ parsePc' \in {"fatal", "done"} /\ scanner' = scanner
          \/ parsePc' = "running" /\ ScannerAdvanced
  /\ parsePc \in {"done", "fatal"} => UNCHANGED <<parsePc, scanner, tree, parseError>>

\* What the step of getSpecialTag at the scanner's position comes to.
StacheStepOutcome ==
  IF BlockFragmentEnded THEN endOfFragment(scanner, frames)
  ELSE getSpecialTagOf(scanner, frames, TagAhead)

\* No step of getSpecialTag leaves the parse as it was: it ends the parse
\* or moves the scanner.
C21_NoStall ==
  GetSpecialTagAtStache
    => \/ StacheStepOutcome.pc = "fatal"
       \/ /\ StacheStepOutcome.pc = "running"
          /\ StacheStepOutcome.pos > scanner.pos
          /\ StacheStepOutcome.pos <= Len(scanner.input)

\* The parse has ended, with a tree or with a fatal error.
ParseEnded ==
  \/ parsePc = "done" /\ tree # NoTree /\ parseError = ""
  \/ parsePc = "fatal" /\ tree = NoTree /\ parseError # ""

\* C21: a successful parseStacheTag returns a charLength greater than 0
\* that stays within the input; a step of getSpecialTag at a "{{" either
\* ends the parse in a fatal error or moves scanner.pos strictly forward,
\* never past the end of the input, and so does every other step of the
\* parse that does not end it; hence the parse of every input, nested
\* blocks included, ends with a tree or with a fatal error.
C21_ParseTerminates == [][C21_Step]_vars /\ []C21_NoStall /\ <>ParseEnded

\* A parse has returned a tree with a block inside a block, the scanner at
\* the end of a nonempty input.
C21_Witness ==
  /\ parsePc = "done"
  /\ tree # NoTree
  /\ scanner.pos = Len(scanner.input)
  /\ Len(frames) = 0
  /\ CountTags(tree, {"BLOCKOPEN"}) >= 2

====
